---------------------------- MODULE Spec2Model ----------------------------
(***************************************************************************)
(* A model of yokai, the tiling X11 window manager of this repository:     *)
(* the layout tree (src/src/yokai/tree/mod.rs), desktops, screens and the  *)
(* window manager's event/command handlers (src/src/yokai/wm/mod.rs), the  *)
(* event queue (src/src/yokai/event/mod.rs) and the IPC server             *)
(* (src/src/yokai/server/mod.rs).                                          *)
(*                                                                         *)
(* Conventions.  A window is its X resource id, a positive integer;        *)
(* NoWindow (0) stands for Option::None of a window.  Vec indices are      *)
(* 0-based as in the source; the i-th element of a Vec v is v[i + 1].      *)
(* The display gateway (crate yaxi) is outside the repository: its calls   *)
(* are modelled as succeeding, and the one piece of display state kept is  *)
(* the border colour last painted on each window.                          *)
(***************************************************************************)
EXTENDS Integers, Sequences, FiniteSets, TLC

(***************************************************************************)
(* Bounds of the model.                                                    *)
(***************************************************************************)
MaxWindow == 3
MaxScreens == 2
MaxDesktops == 2
MaxClients == 2
MaxClientsMulti == 1
MaxPush == 3

Windows == 1..MaxWindow
NoWindow == 0

(***************************************************************************)
(* ipc: State, Direction, Change                                           *)
(***************************************************************************)
States == {"Float", "Dock", "Tiled"}
Directions == {"North", "South", "West", "East"}

DOCK == {"Dock", "Toolbar", "Menu"}
FLOAT == {"Splash", "Utility", "Dialog"}

StateFrom(types) ==
    IF DOCK \cap types # {} THEN "Dock"
    ELSE IF FLOAT \cap types # {} THEN "Float"
    ELSE "Tiled"

StateToggle(state) ==
    CASE state = "Float" -> "Tiled"
      [] state = "Tiled" -> "Float"
      [] state = "Dock" -> "Dock"

(***************************************************************************)
(* config: Insert                                                          *)
(***************************************************************************)
InsertNew(dir, ratio) == [dir |-> dir, ratio |-> ratio]
InsertDefault == InsertNew("East", 50)

(***************************************************************************)
(* tree: Point and Node                                                    *)
(***************************************************************************)
PointAny == [kind |-> "Any"]
PointWindow(w) == [kind |-> "Window", window |-> w]

Leaf(w) == [kind |-> "Leaf", window |-> w]
Internal(l, r, ins) == [kind |-> "Internal", left |-> l, right |-> r, insert |-> ins]
\* Option<Node>::None, the value of Desktop.clients of an empty desktop
NoNode == [kind |-> "None"]

NodeRoot(w) == Leaf(w)

RECURSIVE NodeCollect(_)
NodeCollect(node) ==
    IF node.kind = "Leaf" THEN <<node.window>>
    ELSE NodeCollect(node.left) \o NodeCollect(node.right)

RECURSIVE NodeContains(_, _)
NodeContains(node, needle) ==
    IF node.kind = "Leaf" THEN needle = node.window
    ELSE NodeContains(node.left, needle) \/ NodeContains(node.right, needle)

\* remove with `*self = *right.clone()` in both arms
RECURSIVE NodeRemoveRight(_, _)
NodeRemoveRight(node, needle) ==
    IF node.kind = "Leaf" THEN [node |-> node, ret |-> node.window = needle]
    ELSE LET l == NodeRemoveRight(node.left, needle)
         IN  IF l.ret THEN [node |-> node.right, ret |-> FALSE]
             ELSE LET r == NodeRemoveRight(node.right, needle)
                  IN  IF r.ret THEN [node |-> r.node, ret |-> FALSE]
                      ELSE [node |-> Internal(l.node, r.node, node.insert), ret |-> FALSE]

\* remove returning true from an Internal it has collapsed
RECURSIVE NodeRemoveTrue(_, _)
NodeRemoveTrue(node, needle) ==
    IF node.kind = "Leaf" THEN [node |-> node, ret |-> node.window = needle]
    ELSE LET l == NodeRemoveTrue(node.left, needle)
         IN  IF l.ret THEN [node |-> node.right, ret |-> TRUE]
             ELSE LET r == NodeRemoveTrue(node.right, needle)
                  IN  IF r.ret THEN [node |-> l.node, ret |-> TRUE]
                      ELSE [node |-> Internal(l.node, r.node, node.insert), ret |-> FALSE]

\* remove(&mut self, needle) -> bool: [node |-> self afterwards, ret |-> the result]
RECURSIVE NodeRemove(_, _)
NodeRemove(node, needle) ==
    IF node.kind = "Leaf" THEN [node |-> node, ret |-> node.window = needle]
    ELSE LET l == NodeRemove(node.left, needle)
         IN  IF l.ret THEN [node |-> node.right, ret |-> FALSE]
             ELSE LET r == NodeRemove(node.right, needle)
                  IN  IF r.ret THEN [node |-> l.node, ret |-> FALSE]
                      ELSE [node |-> Internal(l.node, r.node, node.insert), ret |-> FALSE]

\* reverse without the calls on the children
NodeReverseShallow(node) ==
    IF node.kind = "Leaf" THEN node
    ELSE Internal(node.right, node.left, node.insert)

RECURSIVE NodeReverse(_)
NodeReverse(node) ==
    IF node.kind = "Leaf" THEN node
    ELSE Internal(NodeReverse(node.right), NodeReverse(node.left), node.insert)

\* find(&mut self, point): whether some leaf matches the point
RECURSIVE NodeFinds(_, _)
NodeFinds(node, point) ==
    IF node.kind = "Leaf"
    THEN IF point.kind = "Window" THEN node.window = point.window ELSE TRUE
    ELSE NodeFinds(node.left, point) \/ NodeFinds(node.right, point)

\* The Internal that insert() writes in place of the leaf find() returned
Graft(leaf, window, insert) ==
    IF insert.dir \in {"East", "South"}
    THEN Internal(leaf, Leaf(window), insert)
    ELSE Internal(Leaf(window), leaf, insert)

\* insert with find trying the right child before the left
RECURSIVE NodeInsertRightFirst(_, _, _, _)
NodeInsertRightFirst(node, window, insert, point) ==
    IF node.kind = "Leaf"
    THEN IF NodeFinds(node, point) THEN Graft(node, window, insert) ELSE node
    ELSE IF NodeFinds(node.right, point)
         THEN Internal(node.left, NodeInsertRightFirst(node.right, window, insert, point),
                       node.insert)
         ELSE Internal(NodeInsertRightFirst(node.left, window, insert, point), node.right,
                       node.insert)

\* insert(&mut self, window, insert, point): the leaf find(point) returns, the
\* first match left to right, is replaced; no match leaves the tree as it is
RECURSIVE NodeInsert(_, _, _, _)
NodeInsert(node, window, insert, point) ==
    IF node.kind = "Leaf"
    THEN IF NodeFinds(node, point) THEN Graft(node, window, insert) ELSE node
    ELSE IF NodeFinds(node.left, point)
         THEN Internal(NodeInsert(node.left, window, insert, point), node.right, node.insert)
         ELSE Internal(node.left, NodeInsert(node.right, window, insert, point), node.insert)

\* i8, and the value an i8 operation yields where overflow wraps
I8 == -128..127
Wrap8(x) == ((x + 128) % 256) - 128

Min(a, b) == IF a < b THEN a ELSE b
Max(a, b) == IF a > b THEN a ELSE b

\* The closures handed to map_internal, as data: f(left, right, insert).
\* RatioOf is the match on change in exact integers: an i8 addition or
\* subtraction overflows when it leaves I8
RatioOf(change, old) ==
    CASE change.kind = "Add" -> old + change.value
      [] change.kind = "Sub" -> old - Min(change.value, old)
      [] change.kind = "Set" -> change.value

RatioOverflows(change, old) == RatioOf(change, old) \notin I8

\* The closure of Node::Ratio without `.min(90).max(10)`
NewRatioUnclamped(change, old) == Wrap8(RatioOf(change, old))

\* The ratio the closure of Node::Ratio writes where it does not panic
NewRatio(change, old) == Max(Min(Wrap8(RatioOf(change, old)), 90), 10)

\* The closure of Node::Reverse building the Internal without exchanging left
\* and right
ApplyClosureUnswapped(f, left, right, insert) ==
    CASE f.kind = "Ratio" ->
           Internal(left, right, InsertNew(insert.dir, NewRatio(f.change, insert.ratio)))
      [] f.kind = "Reverse" ->
           Internal(NodeReverse(left), NodeReverse(right), insert)

ApplyClosure(f, left, right, insert) ==
    CASE f.kind = "Ratio" ->
           Internal(left, right, InsertNew(insert.dir, NewRatio(f.change, insert.ratio)))
      [] f.kind = "Reverse" ->
           Internal(NodeReverse(right), NodeReverse(left), insert)

\* Whether map_internal(needle, f) applies f, the closure of Node::Ratio, to an
\* Internal whose ratio makes its arithmetic overflow
RECURSIVE ClosureOverflows(_, _, _)
ClosureOverflows(node, needle, change) ==
    IF node.kind = "Leaf" THEN FALSE
    ELSE \/ /\ Leaf(needle) \in {node.left, node.right}
            /\ RatioOverflows(change, node.insert.ratio)
         \/ ClosureOverflows(node.left, needle, change)
         \/ /\ node.left # Leaf(needle)
            /\ ClosureOverflows(node.right, needle, change)

\* map_internal reporting the leaf found to every ancestor, so that each of
\* them applies f
RECURSIVE NodeMapInternalAncestors(_, _, _)
NodeMapInternalAncestors(node, needle, f) ==
    IF node.kind = "Leaf" THEN [node |-> node, ret |-> node.window = needle]
    ELSE LET l == NodeMapInternalAncestors(node.left, needle, f)
         IN  IF l.ret
             THEN [node |-> ApplyClosure(f, l.node, node.right, node.insert), ret |-> TRUE]
             ELSE LET r == NodeMapInternalAncestors(node.right, needle, f)
                  IN  IF r.ret
                      THEN [node |-> ApplyClosure(f, l.node, r.node, node.insert), ret |-> TRUE]
                      ELSE [node |-> Internal(l.node, r.node, node.insert), ret |-> FALSE]

\* map_internal(&mut self, needle, f) -> bool
RECURSIVE NodeMapInternal(_, _, _)
NodeMapInternal(node, needle, f) ==
    IF node.kind = "Leaf" THEN [node |-> node, ret |-> node.window = needle]
    ELSE LET l == NodeMapInternal(node.left, needle, f)
         IN  IF l.ret
             THEN [node |-> ApplyClosure(f, l.node, node.right, node.insert), ret |-> FALSE]
             ELSE LET r == NodeMapInternal(node.right, needle, f)
                  IN  IF r.ret
                      THEN [node |-> ApplyClosure(f, l.node, r.node, node.insert), ret |-> FALSE]
                      ELSE [node |-> Internal(l.node, r.node, node.insert), ret |-> FALSE]

(***************************************************************************)
(* tree: partition.  Area is wm's Area, its fields u16.                    *)
(***************************************************************************)
U16 == 0..65535

AreaNew(x, y, width, height) == [x |-> x, y |-> y, width |-> width, height |-> height]

\* The (total, ratio) pairs, among those this model reaches, at which the
\* product of doubles total * (ratio / 100.0) lies below the exact product:
\* 100.0 * 0.29 is 28.999999999999996
F64Short == {<<100, 29>>}

\* (total as f64 * factor) as u16 with factor = ratio.min(100) as f64 / 100.0:
\* the cast truncates toward zero and turns a negative product into 0
Scale(total, ratio) ==
    IF ratio < 0 THEN 0
    ELSE IF <<total, ratio>> \in F64Short THEN (total * Min(ratio, 100)) \div 100 - 1
    ELSE (total * Min(ratio, 100)) \div 100

\* The arguments of window.mov_resize at a leaf, in exact integers: a u16
\* operation overflows where its result leaves U16
Place(window, area, gaps) ==
    [window |-> window,
     x |-> area.x + gaps,
     y |-> area.y + gaps,
     width |-> area.width - gaps * 2,
     height |-> area.height - gaps * 2]

\* The Area partition hands to the left child of an Internal
LeftArea(area, insert) ==
    IF insert.dir \in {"North", "South"}
    THEN AreaNew(area.x, area.y, area.width, Scale(area.height, insert.ratio))
    ELSE AreaNew(area.x, area.y, Scale(area.width, insert.ratio), area.height)

\* The right child's Area without the offset along the split
RightAreaAtOrigin(area, insert) ==
    IF insert.dir \in {"North", "South"}
    THEN AreaNew(area.x, area.y, area.width,
                 area.height - Scale(area.height, insert.ratio))
    ELSE AreaNew(area.x, area.y,
                 area.width - Scale(area.width, insert.ratio), area.height)

\* The Area partition hands to the right child of an Internal
RightArea(area, insert) ==
    IF insert.dir \in {"North", "South"}
    THEN AreaNew(area.x, area.y + Scale(area.height, insert.ratio), area.width,
                 area.height - Scale(area.height, insert.ratio))
    ELSE AreaNew(area.x + Scale(area.width, insert.ratio), area.y,
                 area.width - Scale(area.width, insert.ratio), area.height)

\* partition(&self, area, gaps): the mov_resize calls, leaf by leaf from the
\* left
RECURSIVE NodePartition(_, _, _)
NodePartition(node, area, gaps) ==
    IF node.kind = "Leaf" THEN <<Place(node.window, area, gaps)>>
    ELSE NodePartition(node.left, LeftArea(area, node.insert), gaps)
         \o NodePartition(node.right, RightArea(area, node.insert), gaps)

\* Whether the arithmetic of a leaf's mov_resize stays within u16
Fits(placed) ==
    /\ placed.x \in U16
    /\ placed.y \in U16
    /\ placed.width \in U16
    /\ placed.height \in U16

\* What a build without overflow checks passes to mov_resize
Wrapped(placed) ==
    [placed EXCEPT !.x = @ % 65536, !.y = @ % 65536,
                   !.width = @ % 65536, !.height = @ % 65536]

\* The mov_resize calls partition makes: with overflow checks it panics at the
\* first leaf whose arithmetic overflows, without them the results wrap
Partitioned(node, area, gaps, checks) ==
    LET all == NodePartition(node, area, gaps)
        bad == {i \in 1..Len(all) : ~Fits(all[i])}
    IN  IF checks /\ bad # {}
        THEN [placed |-> SubSeq(all, 1, (CHOOSE i \in bad : \A j \in bad : i <= j) - 1),
              panic |-> TRUE]
        ELSE [placed |-> [i \in 1..Len(all) |-> Wrapped(all[i])], panic |-> FALSE]

(***************************************************************************)
(* wm: Desktop                                                             *)
(***************************************************************************)
DesktopNew == [clients |-> NoNode, floating |-> <<>>]

SeqContains(seq, w) == \E i \in 1..Len(seq) : seq[i] = w

DesktopContains(desktop, window) ==
    IF desktop.clients # NoNode
    THEN NodeContains(desktop.clients, window) \/ SeqContains(desktop.floating, window)
    ELSE SeqContains(desktop.floating, window)

DesktopInsertTiled(desktop, window, insert, point) ==
    IF desktop.clients # NoNode
    THEN [desktop EXCEPT !.clients = NodeInsert(desktop.clients, window, insert, point)]
    ELSE [desktop EXCEPT !.clients = NodeRoot(window)]

DesktopInsert(desktop, window, insert, point, state) ==
    CASE state = "Float" -> [desktop EXCEPT !.floating = Append(desktop.floating, window)]
      [] state = "Tiled" -> DesktopInsertTiled(desktop, window, insert, point)
      [] state = "Dock" -> desktop

\* Vec::remove(index)
SeqRemoveAt(seq, i) == SubSeq(seq, 1, i - 1) \o SubSeq(seq, i + 1, Len(seq))

\* Desktop::remove(wid) -> State: [desktop |-> self afterwards, state |-> the result]
DesktopRemove(desktop, wid) ==
    LET clients == IF desktop.clients = NoNode THEN NoNode
                   ELSE LET r == NodeRemove(desktop.clients, wid)
                        IN  IF r.ret THEN NoNode ELSE r.node
        hits == {i \in 1..Len(desktop.floating) : desktop.floating[i] = wid}
    IN  IF hits # {}
        THEN LET index == CHOOSE i \in hits : \A j \in hits : i <= j
             IN  [desktop |-> [clients |-> clients,
                               floating |-> SeqRemoveAt(desktop.floating, index)],
                  state |-> "Float"]
        ELSE [desktop |-> [clients |-> clients, floating |-> desktop.floating],
              state |-> "Tiled"]

DesktopMapInternal(desktop, wid, f) ==
    IF desktop.clients # NoNode
    THEN [desktop EXCEPT !.clients = NodeMapInternal(desktop.clients, wid, f).node]
    ELSE desktop

(***************************************************************************)
(* wm: Screen.  current is a 0-based index into desktops.                  *)
(***************************************************************************)
ScreenNew == [desktops |-> <<>>, current |-> 0]

ScreenContains(screen, window) ==
    \E d \in 1..Len(screen.desktops) : DesktopContains(screen.desktops[d], window)

\* desktops.get(current) is Some
HasCurrent(screen) == screen.current < Len(screen.desktops)

\* resize's loop leaving after the first window of excess
InsertHead(desktop, excess) ==
    IF excess = <<>> THEN desktop
    ELSE DesktopInsert(desktop, Head(excess), InsertDefault, PointAny, "Tiled")

RECURSIVE InsertAll(_, _)
InsertAll(desktop, excess) ==
    IF excess = <<>> THEN desktop
    ELSE InsertAll(DesktopInsert(desktop, Head(excess), InsertDefault, PointAny, "Tiled"),
                   Tail(excess))

RECURSIVE CollectDrained(_)
CollectDrained(drained) ==
    IF drained = <<>> THEN <<>>
    ELSE (IF Head(drained).clients = NoNode THEN <<>> ELSE NodeCollect(Head(drained).clients))
         \o CollectDrained(Tail(drained))

\* Screen::resize(size): [screen |-> self afterwards, panic |-> whether
\* desktops[size - 1] is evaluated with size = 0]
ScreenResize(screen, size) ==
    LET len == Len(screen.desktops) IN
    IF size >= len
    THEN [screen |-> [screen EXCEPT !.desktops =
                        screen.desktops \o [i \in 1..(size - len) |-> DesktopNew]],
          panic |-> FALSE]
    ELSE LET excess == CollectDrained(SubSeq(screen.desktops, size + 1, len))
             kept == SubSeq(screen.desktops, 1, size)
         IN  IF excess = <<>> THEN [screen |-> [screen EXCEPT !.desktops = kept],
                                    panic |-> FALSE]
             ELSE IF size = 0 THEN [screen |-> [screen EXCEPT !.desktops = kept],
                                    panic |-> TRUE]
             ELSE [screen |-> [screen EXCEPT !.desktops =
                                 [kept EXCEPT ![size] = InsertAll(kept[size], excess)]],
                   panic |-> FALSE]

\* Screen::insert: through desktops.get_mut(current), nothing when that is None
ScreenInsert(screen, window, insert, point, state) ==
    IF HasCurrent(screen)
    THEN [screen EXCEPT !.desktops[screen.current + 1] =
            DesktopInsert(screen.desktops[screen.current + 1], window, insert, point, state)]
    ELSE screen

\* Screen::remove: desktops[current], which panics when current is out of bounds
ScreenRemovePanics(screen) == ~HasCurrent(screen)

ScreenRemove(screen, wid) ==
    LET r == DesktopRemove(screen.desktops[screen.current + 1], wid)
    IN  [screen |-> [screen EXCEPT !.desktops[screen.current + 1] = r.desktop],
         state |-> r.state]

ScreenMapInternal(screen, wid, f) ==
    IF HasCurrent(screen)
    THEN [screen EXCEPT !.desktops[screen.current + 1] =
            DesktopMapInternal(screen.desktops[screen.current + 1], wid, f)]
    ELSE screen

(***************************************************************************)
(* Colours.  A u32 is kept as its two 16-bit halves, hi * 65536 + lo.      *)
(* A colour string is a sequence of one-character strings.                 *)
(***************************************************************************)
Colour(hi, lo) == [hi |-> hi, lo |-> lo]
Unpainted == Colour(-1, -1)

HexDigits == <<"0", "1", "2", "3", "4", "5", "6", "7", "8", "9",
               "a", "b", "c", "d", "e", "f">>
HexUpper == <<"A", "B", "C", "D", "E", "F">>

\* char::to_digit(16), -1 for None
ToDigit(c) ==
    IF \E i \in 1..16 : HexDigits[i] = c
    THEN (CHOOSE i \in 1..16 : HexDigits[i] = c) - 1
    ELSE IF \E i \in 1..6 : HexUpper[i] = c
    THEN (CHOOSE i \in 1..6 : HexUpper[i] = c) + 9
    ELSE -1

\* acc * 16 + digit on a u32, checked: ok is FALSE on an invalid digit or overflow
RECURSIVE ParseDigits(_, _)
ParseDigits(str, acc) ==
    IF str = <<>> THEN [ok |-> TRUE, value |-> acc]
    ELSE LET d == ToDigit(Head(str))
             hi == acc.hi * 16 + (acc.lo \div 4096)
             lo == (acc.lo % 4096) * 16 + d
         IN  IF d < 0 \/ hi > 65535 THEN [ok |-> FALSE, value |-> acc]
             ELSE ParseDigits(Tail(str), Colour(hi, lo))

\* u32::from_str_radix(str, 16): an optional leading "+", then at least one digit
FromStrRadix16(str) ==
    LET digits == IF str # <<>> /\ Head(str) = "+" THEN Tail(str) ELSE str
    IN  IF digits = <<>> THEN [ok |-> FALSE, value |-> Colour(0, 0)]
        ELSE ParseDigits(digits, Colour(0, 0))

(***************************************************************************)
(* config: Configuration.  desktops.names is kept as the number of names.  *)
(***************************************************************************)
PaddingOf(top, bottom, left, right) ==
    [top |-> top, bottom |-> bottom, left |-> left, right |-> right]

ConfigurationNew ==
    [insert |-> InsertDefault,
     pf |-> [focus_follows |-> FALSE, pointer_follows |-> FALSE],
     desktops |-> [names |-> 0, pinned |-> FALSE],
     gaps |-> 0,
     border |-> [normal |-> Colour(0, 255), focused |-> Colour(65535, 65535), width |-> 1],
     padding |-> PaddingOf(0, 0, 0, 0)]

(***************************************************************************)
(* The window manager.  A manager state M is the record                    *)
(*   [screens, focus, config, should_close, border]                        *)
(* where border is the display's record of the colour painted on each      *)
(* window.  A handler yields [m |-> the state afterwards, res |-> "Ok",    *)
(* "Err" (the handler returned Err) or "Panic" (an index out of bounds)].  *)
(***************************************************************************)
Ok(M) == [m |-> M, res |-> "Ok"]
Err(M) == [m |-> M, res |-> "Err"]
Panic(M) == [m |-> M, res |-> "Panic"]

IsManaged(M, window) ==
    \E i \in 1..Len(M.screens) : ScreenContains(M.screens[i], window)

\* The screen WindowManager::focused hands to its closure: the 1-based position
\* of the first screen that contains the focus or, without a focus, whose area
\* contains the pointer (ptr, 0 when the pointer is in no screen's area);
\* 0 when no screen is chosen
FocusedIndex(M, ptr) ==
    LET hit(i) == IF M.focus # NoWindow THEN ScreenContains(M.screens[i], M.focus)
                  ELSE ptr = i
        hits == {i \in 1..Len(M.screens) : hit(i)}
    IN  IF hits = {} THEN 0 ELSE CHOOSE i \in hits : \A j \in hits : i <= j

\* handle_event, Event::MapRequest
EvMapRequest(M, window, types, ptr) ==
    LET i == FocusedIndex(M, ptr)
        point == IF M.focus # NoWindow THEN PointWindow(M.focus) ELSE PointAny
        painted == [M EXCEPT !.border[window] = M.config.border.normal]
    IN  IF i = 0 THEN Ok(painted)
        ELSE Ok([painted EXCEPT !.screens[i] =
                   ScreenInsert(M.screens[i], window, M.config.insert, point,
                                StateFrom(types))])

\* handle_event, Event::UnmapNotify
EvUnmapNotify(M, window) ==
    IF \E i \in 1..Len(M.screens) : ScreenRemovePanics(M.screens[i]) THEN Panic(M)
    ELSE Ok([M EXCEPT
               !.screens = [i \in 1..Len(M.screens) |->
                              ScreenRemove(M.screens[i], window).screen],
               !.focus = IF M.focus = window THEN NoWindow ELSE M.focus])

\* handle_event, Event::EnterNotify: set_input_focus is a request to the display
EvEnterNotify(M, window) == Ok(M)

\* handle_event, Event::FocusIn
EvFocusIn(M, window) ==
    IF IsManaged(M, window)
    THEN LET painted == [M.border EXCEPT ![window] = M.config.border.focused]
         IN  Ok([M EXCEPT
                   !.focus = window,
                   !.border = IF M.focus # NoWindow /\ M.focus # window
                              THEN [painted EXCEPT ![M.focus] = M.config.border.normal]
                              ELSE painted])
    ELSE Ok(M)

\* Option<i8> of NodeCommand::Insert
NoRatio == [some |-> FALSE]
SomeRatio(v) == [some |-> TRUE, value |-> v]

\* handle_config, NodeCommand::Insert
CmdInsert(M, dir, ratio, toggle) ==
    LET insert == InsertNew(dir, IF ratio.some THEN ratio.value ELSE M.config.insert.ratio)
    IN  Ok([M EXCEPT !.config.insert =
              IF insert = M.config.insert /\ toggle THEN InsertDefault ELSE insert])

\* handle_config, NodeCommand::Move: get_geometry and mov are display calls
CmdMove(M) == Ok(M)

\* handle_config, NodeCommand::State
CmdState(M, state, toggle, ptr) ==
    LET i == FocusedIndex(M, ptr) IN
    IF M.focus = NoWindow \/ i = 0 THEN Ok(M)
    ELSE IF ScreenRemovePanics(M.screens[i]) THEN Panic(M)
    ELSE LET r == ScreenRemove(M.screens[i], M.focus)
             to == IF r.state = state /\ toggle THEN StateToggle(state) ELSE state
         IN  Ok([M EXCEPT !.screens[i] =
                   ScreenInsert(r.screen, M.focus, M.config.insert, PointAny, to)])

\* handle_config, NodeCommand::Desktop
CmdNodeDesktop(M, desktop, ptr) ==
    LET i == FocusedIndex(M, ptr) IN
    IF M.focus = NoWindow \/ i = 0 THEN Ok(M)
    ELSE IF ~(desktop < Len(M.screens[i].desktops) /\ M.screens[i].current # desktop)
    THEN Ok(M)
    ELSE IF ScreenRemovePanics(M.screens[i]) THEN Panic(M)
    ELSE LET r == ScreenRemove(M.screens[i], M.focus)
             moved == [r.screen EXCEPT !.desktops[desktop + 1] =
                         DesktopInsert(r.screen.desktops[desktop + 1], M.focus,
                                       M.config.insert, PointAny, r.state)]
         IN  Ok([M EXCEPT !.screens[i] = moved, !.focus = NoWindow])

\* handle_config, NodeCommand::Ratio and NodeCommand::Reverse: map_internal with
\* the closure f on the focused screen
CmdMapInternal(M, f, ptr) ==
    LET i == FocusedIndex(M, ptr) IN
    IF M.focus = NoWindow \/ i = 0 THEN Ok(M)
    ELSE Ok([M EXCEPT !.screens[i] = ScreenMapInternal(M.screens[i], M.focus, f)])

\* handle_config, NodeCommand::Ratio.  checks is the build's overflow-checks
\* setting: with it an overflowing i8 operation panics, without it it wraps
CmdRatio(M, change, checks, ptr) ==
    LET i == FocusedIndex(M, ptr) IN
    IF /\ checks
       /\ M.focus # NoWindow
       /\ i # 0
       /\ HasCurrent(M.screens[i])
       /\ M.screens[i].desktops[M.screens[i].current + 1].clients # NoNode
       /\ ClosureOverflows(M.screens[i].desktops[M.screens[i].current + 1].clients,
                           M.focus, change)
    THEN Panic(M)
    ELSE CmdMapInternal(M, [kind |-> "Ratio", change |-> change], ptr)

CmdReverse(M, ptr) == CmdMapInternal(M, [kind |-> "Reverse"], ptr)

\* handle_config, NodeCommand::Kill and NodeCommand::Close: requests to the display
CmdKill(M) == Ok(M)

CmdClose(M) == Ok(M)

\* The index DesktopCommand::Focus stores with desktops pinned
PinnedCurrent(screen, desktop) == Min(desktop, Len(screen.desktops))

\* Whether DesktopCommand::Focus writes the current index of the screen at
\* 0-based position index, desktops not pinned, and the index it writes
UnpinnedSelects(screen, index, desktop) == desktop > Len(screen.desktops) * index

UnpinnedCurrent(screen, index, desktop) ==
    Min(desktop - Len(screen.desktops) * index, Len(screen.desktops))

\* handle_config, DesktopCommand::Focus
CmdDesktopFocus(M, desktop, ptr) ==
    IF M.config.desktops.pinned
    THEN LET i == FocusedIndex(M, ptr) IN
         IF i = 0 THEN Ok(M)
         ELSE Ok([M EXCEPT !.screens[i].current = PinnedCurrent(M.screens[i], desktop)])
    ELSE Ok([M EXCEPT !.screens =
               [i \in 1..Len(M.screens) |->
                  IF UnpinnedSelects(M.screens[i], i - 1, desktop)
                  THEN [M.screens[i] EXCEPT
                          !.current = UnpinnedCurrent(M.screens[i], i - 1, desktop)]
                  ELSE M.screens[i]]])

\* handle_config, ConfigCommand::Desktops, names being the number of names
CmdDesktops(M, names, pinned) ==
    LET resized == [i \in 1..Len(M.screens) |-> ScreenResize(M.screens[i], names)]
        set == [M EXCEPT !.config.desktops = [names |-> names, pinned |-> pinned]]
    IN  IF \E i \in 1..Len(M.screens) : resized[i].panic THEN Panic(set)
        ELSE Ok([set EXCEPT !.screens = [i \in 1..Len(M.screens) |-> resized[i].screen]])

\* handle_config, ConfigCommand::Window
CmdWindow(M, gaps) == Ok([M EXCEPT !.config.gaps = gaps])

\* Config::Border storing the normal colour before it parses the focused one
CmdBorderPartial(M, normal, focused, width) ==
    LET n == FromStrRadix16(normal)
        f == FromStrRadix16(focused)
    IN  IF ~n.ok THEN Err(M)
        ELSE IF ~f.ok THEN Err([M EXCEPT !.config.border.normal = n.value])
        ELSE Ok([M EXCEPT !.config.border =
                   [normal |-> n.value, focused |-> f.value, width |-> width]])

\* handle_config, ConfigCommand::Border: the first colour that fails to parse
\* returns Err before config.border is assigned
CmdBorder(M, normal, focused, width) ==
    LET n == FromStrRadix16(normal)
        f == FromStrRadix16(focused)
    IN  IF ~n.ok \/ ~f.ok THEN Err(M)
        ELSE Ok([M EXCEPT !.config.border =
                   [normal |-> n.value, focused |-> f.value, width |-> width]])

\* handle_config, ConfigCommand::Padding
CmdPadding(M, padding) == Ok([M EXCEPT !.config.padding = padding])

\* handle_config, ConfigCommand::PointerFollowsFocus / FocusFollowsPointer
CmdPointerFollowsFocus(M) ==
    Ok([M EXCEPT !.config.pf.pointer_follows = ~M.config.pf.pointer_follows])

CmdFocusFollowsPointer(M) ==
    Ok([M EXCEPT !.config.pf.focus_follows = ~M.config.pf.focus_follows])

\* Command::Exit leaving should_close as it is
CmdExitIgnored(M) == Ok(M)

\* handle_config, Command::Exit
CmdExit(M) == Ok([M EXCEPT !.should_close = TRUE])

(***************************************************************************)
(* Messages: EventType::XEvent(event) and EventType::Config(arguments).    *)
(***************************************************************************)
XMapRequest(w, types) == [kind |-> "MapRequest", window |-> w, types |-> types]
XUnmapNotify(w) == [kind |-> "UnmapNotify", window |-> w]
XEnterNotify(w) == [kind |-> "EnterNotify", window |-> w]
XFocusIn(w) == [kind |-> "FocusIn", window |-> w]
XOther == [kind |-> "Other"]
CInsert(dir, ratio, toggle) ==
    [kind |-> "Node::Insert", dir |-> dir, ratio |-> ratio, toggle |-> toggle]
CMove == [kind |-> "Node::Move"]
CState(state, toggle) == [kind |-> "Node::State", state |-> state, toggle |-> toggle]
CNodeDesktop(desktop) == [kind |-> "Node::Desktop", desktop |-> desktop]
CRatio(change, checks) == [kind |-> "Node::Ratio", change |-> change, checks |-> checks]
CReverse == [kind |-> "Node::Reverse"]
CKill == [kind |-> "Node::Kill"]
CClose == [kind |-> "Node::Close"]
CDesktopFocus(desktop) == [kind |-> "Desktop::Focus", desktop |-> desktop]
CDesktops(names, pinned) == [kind |-> "Config::Desktops", names |-> names, pinned |-> pinned]
CWindow(gaps) == [kind |-> "Config::Window", gaps |-> gaps]
CBorder(normal, focused, width) ==
    [kind |-> "Config::Border", normal |-> normal, focused |-> focused, width |-> width]
CPadding(padding) == [kind |-> "Config::Padding", padding |-> padding]
CPointerFollowsFocus == [kind |-> "Config::PointerFollowsFocus"]
CFocusFollowsPointer == [kind |-> "Config::FocusFollowsPointer"]
CExit == [kind |-> "Exit"]

\* run: the match on the message, into handle_event or handle_config
Handle(M, msg, ptr) ==
    CASE msg.kind = "MapRequest" -> EvMapRequest(M, msg.window, msg.types, ptr)
      [] msg.kind = "UnmapNotify" -> EvUnmapNotify(M, msg.window)
      [] msg.kind = "EnterNotify" -> EvEnterNotify(M, msg.window)
      [] msg.kind = "FocusIn" -> EvFocusIn(M, msg.window)
      [] msg.kind = "Other" -> Ok(M)
      [] msg.kind = "Node::Insert" -> CmdInsert(M, msg.dir, msg.ratio, msg.toggle)
      [] msg.kind = "Node::Move" -> CmdMove(M)
      [] msg.kind = "Node::State" -> CmdState(M, msg.state, msg.toggle, ptr)
      [] msg.kind = "Node::Desktop" -> CmdNodeDesktop(M, msg.desktop, ptr)
      [] msg.kind = "Node::Ratio" -> CmdRatio(M, msg.change, msg.checks, ptr)
      [] msg.kind = "Node::Reverse" -> CmdReverse(M, ptr)
      [] msg.kind = "Node::Kill" -> CmdKill(M)
      [] msg.kind = "Node::Close" -> CmdClose(M)
      [] msg.kind = "Desktop::Focus" -> CmdDesktopFocus(M, msg.desktop, ptr)
      [] msg.kind = "Config::Desktops" -> CmdDesktops(M, msg.names, msg.pinned)
      [] msg.kind = "Config::Window" -> CmdWindow(M, msg.gaps)
      [] msg.kind = "Config::Border" -> CmdBorder(M, msg.normal, msg.focused, msg.width)
      [] msg.kind = "Config::Padding" -> CmdPadding(M, msg.padding)
      [] msg.kind = "Config::PointerFollowsFocus" -> CmdPointerFollowsFocus(M)
      [] msg.kind = "Config::FocusFollowsPointer" -> CmdFocusFollowsPointer(M)
      [] msg.kind = "Exit" -> CmdExit(M)

(***************************************************************************)
(* The display calls of Screen::tile.  The display is kept as the set D of *)
(* the windows it holds as mapped.  fails is the window on which the       *)
(* display calls return Err while a handler runs, NoWindow when none does. *)
(* A result is [mapped |-> the display afterwards, res |-> "Ok" or "Err"]. *)
(* With the gaps and padding of Configuration::new the arithmetic of tile  *)
(* and partition does not overflow.                                        *)
(***************************************************************************)
\* The windows partition and traverse visit, left before right
Clients(desktop) ==
    IF desktop.clients = NoNode THEN <<>> ELSE NodeCollect(desktop.clients)

\* mov_resize()? and map()? on each leaf, map()? and raise()? on each floating
\* window: `?` leaves at the first Err
RECURSIVE MapEach(_, _, _)
MapEach(windows, D, fails) ==
    IF windows = <<>> THEN [mapped |-> D, res |-> "Ok"]
    ELSE IF Head(windows) = fails THEN [mapped |-> D, res |-> "Err"]
    ELSE MapEach(Tail(windows), D \cup {Head(windows)}, fails)

\* unmap()? on each window
RECURSIVE UnmapEach(_, _, _)
UnmapEach(windows, D, fails) ==
    IF windows = <<>> THEN [mapped |-> D, res |-> "Ok"]
    ELSE IF Head(windows) = fails THEN [mapped |-> D, res |-> "Err"]
    ELSE UnmapEach(Tail(windows), D \ {Head(windows)}, fails)

\* Desktop::hide
DesktopHide(desktop, D, fails) ==
    LET t == UnmapEach(Clients(desktop), D, fails)
    IN  IF t.res = "Err" THEN t ELSE UnmapEach(desktop.floating, t.mapped, fails)

\* Desktop::tile
DesktopTile(desktop, D, fails) ==
    LET t == MapEach(Clients(desktop), D, fails)
    IN  IF t.res = "Err" THEN t ELSE MapEach(desktop.floating, t.mapped, fails)

\* The loop of Screen::tile from the desktop at 1-based position index on
RECURSIVE HideOthers(_, _, _, _)
HideOthers(screen, index, D, fails) ==
    IF index > Len(screen.desktops) THEN [mapped |-> D, res |-> "Ok"]
    ELSE IF index = screen.current + 1 THEN HideOthers(screen, index + 1, D, fails)
    ELSE LET h == DesktopHide(screen.desktops[index], D, fails)
         IN  IF h.res = "Err" THEN h ELSE HideOthers(screen, index + 1, h.mapped, fails)

\* Screen::tile leaving the other desktops as they are
ScreenTileCurrent(screen, D, fails) ==
    IF HasCurrent(screen)
    THEN DesktopTile(screen.desktops[screen.current + 1], D, fails)
    ELSE [mapped |-> D, res |-> "Ok"]

\* Screen::tile
ScreenTile(screen, D, fails) ==
    LET t == IF HasCurrent(screen)
             THEN DesktopTile(screen.desktops[screen.current + 1], D, fails)
             ELSE [mapped |-> D, res |-> "Ok"]
    IN  IF t.res = "Err" THEN t ELSE HideOthers(screen, 1, t.mapped, fails)

\* The screens on which the handler of msg calls Screen::tile, as 1-based
\* positions
TiledBy(M, msg, ptr) ==
    LET i == FocusedIndex(M, ptr)
        one == IF i = 0 THEN {} ELSE {i}
        every == 1..Len(M.screens)
    IN  CASE msg.kind = "MapRequest" -> one
          [] msg.kind = "UnmapNotify" -> every
          [] msg.kind \in {"Node::State", "Node::Ratio", "Node::Reverse"} ->
               IF M.focus = NoWindow THEN {} ELSE one
          [] msg.kind = "Node::Desktop" ->
               IF /\ M.focus # NoWindow
                  /\ i # 0
                  /\ msg.desktop < Len(M.screens[i].desktops)
                  /\ M.screens[i].current # msg.desktop
               THEN {i} ELSE {}
          [] msg.kind = "Desktop::Focus" ->
               IF M.config.desktops.pinned THEN one
               ELSE {k \in every : UnpinnedSelects(M.screens[k], k - 1, msg.desktop)}
          [] msg.kind \in {"Config::Window", "Config::Border", "Config::Padding"} -> every
          [] OTHER -> {}

\* Screen::tile on the screens of which, in the order of self.screens, from
\* position index on; at is the position of the screen whose tile returned Err
RECURSIVE TileScreens(_, _, _, _, _)
TileScreens(scrs, which, index, D, fails) ==
    IF index > Len(scrs) THEN [mapped |-> D, res |-> "Ok", at |-> 0]
    ELSE IF index \notin which THEN TileScreens(scrs, which, index + 1, D, fails)
    ELSE LET t == ScreenTile(scrs[index], D, fails)
         IN  IF t.res = "Err" THEN [mapped |-> t.mapped, res |-> "Err", at |-> index]
             ELSE TileScreens(scrs, which, index + 1, t.mapped, fails)

\* What an Err of tile leaves: `?` propagates it, the later screens of all()
\* and the focus stay as they were.  t is the result of the calls of tile
AfterTiles(M, r, which, fails, t) ==
    IF t.res = "Ok"
    THEN [m |-> r.m, res |-> "Ok", mapped |-> t.mapped, tiled |-> which,
          failed |-> NoWindow]
    ELSE [m |-> [r.m EXCEPT
                   !.screens = [k \in 1..Len(M.screens) |->
                                  IF k <= t.at THEN r.m.screens[k] ELSE M.screens[k]],
                   !.focus = M.focus],
          res |-> "Err", mapped |-> t.mapped, tiled |-> which, failed |-> fails]

\* r is the handler's result for the manager's own state: a handler that
\* panics or returns Err does so before it tiles
AfterHandler(M, D, r, which, fails) ==
    IF r.res # "Ok"
    THEN [m |-> r.m, res |-> r.res, mapped |-> D, tiled |-> {}, failed |-> NoWindow]
    ELSE AfterTiles(M, r, which, fails, TileScreens(r.m.screens, which, 1, D, fails))

\* A handler with its display calls on windows:
\* [m, res, mapped, tiled |-> the screens it tiled, failed |-> the window
\* whose display call returned Err]
HandleTiling(M, D, msg, ptr, fails) ==
    AfterHandler(M, D, Handle(M, msg, ptr), TiledBy(M, msg, ptr), fails)

(***************************************************************************)
(* State.                                                                  *)
(*   screens, focus, config, should_close   fields of WindowManager        *)
(*   border    the display: the colour painted on each window the manager  *)
(*             holds (the colour of a window it does not hold is not kept: *)
(*             MapRequest paints a window before the manager takes it)     *)
(*   run       where WindowManager::run is: "loop", or how it ended        *)
(*   queue     Queue.queue, the VecDeque behind the mutex                  *)
(*   mutex     the thread holding Queue.queue's mutex, "free" when none    *)
(*   server    the IPC server thread: its place and the Arguments it holds *)
(*   xsource   the X event thread (listen): its place and its event        *)
(*   waiter    the manager thread inside Queue::wait, "idle" outside it    *)
(*   got       the message wait() returned, until it is dispatched         *)
(*   pushed    history: every message push_back appended, in that order    *)
(*   delivered history: every message wait() returned, in that order       *)
(* and, for the functions of the tree and of Screen taken on their own:    *)
(*   tree      the Node (or NoNode) a function of tree/mod.rs is applied to *)
(*   call      the last application: the function, its arguments, the tree *)
(*             before it and what it returned                              *)
(* and, for the display calls of Screen::tile:                             *)
(*   mapped    the windows the display holds as mapped                     *)
(***************************************************************************)
VARIABLES screens, focus, config, should_close, border, run,
          queue, mutex, server, xsource, waiter, got, pushed, delivered,
          tree, call, mapped

mvars == <<screens, focus, config, should_close, border, run>>
qvars == <<queue, mutex, server, xsource, waiter, got, pushed, delivered>>
hvars == <<tree, call, mapped>>
vars == <<screens, focus, config, should_close, border, run,
          queue, mutex, server, xsource, waiter, got, pushed, delivered,
          tree, call, mapped>>

Manager ==
    [screens |-> screens, focus |-> focus, config |-> config,
     should_close |-> should_close, border |-> border]

NoMessage == [kind |-> "None"]

\* WindowManager::new, then load_screens for n screens reported by xinerama
InitManager(n) ==
    /\ screens = [i \in 1..n |-> ScreenNew]
    /\ focus = NoWindow
    /\ config = ConfigurationNew
    /\ should_close = FALSE
    /\ border = [w \in Windows |-> Unpainted]
    /\ run = "loop"

\* Queue::new, and the two threads run spawns, before their first step
InitThreads ==
    /\ queue = <<>>
    /\ mutex = "free"
    /\ server = [pc |-> "new", buf |-> NoMessage]
    /\ xsource = [pc |-> "next", buf |-> NoMessage]
    /\ waiter = "idle"
    /\ got = NoMessage
    /\ pushed = <<>>
    /\ delivered = <<>>

\* No function has been applied on its own
NoCall == [op |-> "none"]
InitIdle == tree = NoNode /\ call = NoCall /\ mapped = {}

Init == InitThreads /\ InitIdle /\ \E n \in 0..MaxScreens : InitManager(n)

\* The number of places windows occupy: the leaves and floating entries of all
\* desktops
Placements(scrs) ==
    LET OfDesktop(d) == (IF d.clients = NoNode THEN 0 ELSE Len(NodeCollect(d.clients)))
                        + Len(d.floating)
        RECURSIVE SumD(_)
        SumD(ds) == IF ds = <<>> THEN 0 ELSE OfDesktop(Head(ds)) + SumD(Tail(ds))
        RECURSIVE SumS(_)
        SumS(ss) == IF ss = <<>> THEN 0 ELSE SumD(Head(ss).desktops) + SumS(Tail(ss))
    IN  SumS(scrs)

\* The colours the display model keeps: those of the windows the manager holds
Tracked(M) == [w \in Windows |-> IF IsManaged(M, w) THEN M.border[w] ELSE Unpainted]

\* The bound on the places windows occupy: MaxClients with one screen,
\* MaxClientsMulti with several
ClientCap == IF Len(screens) > 1 THEN MaxClientsMulti ELSE MaxClients

\* What the loop of run is left with by a handler's result r: a handler's Err
\* is propagated by `?` and ends run, a panic ends the process
Settle(r) ==
    /\ Placements(r.m.screens) <= ClientCap
    /\ screens' = r.m.screens
    /\ focus' = r.m.focus
    /\ config' = r.m.config
    /\ should_close' = r.m.should_close
    /\ border' = Tracked(r.m)
    /\ run' = CASE r.res = "Ok" -> "loop"
                [] r.res = "Err" -> "returned_err"
                [] r.res = "Panic" -> "panicked"

\* The same, the display calls of tile left aside
Commit(r) == Settle(r) /\ UNCHANGED hvars

\* The body of the loop of run on message msg
Apply(msg, ptr) == Commit(Handle(Manager, msg, ptr))

\* run is at the head of its loop, outside wait()
AtLoop == run = "loop" /\ waiter = "idle"

\* One iteration of the loop of run, wait() having returned msg
Dispatch(msg, ptr) ==
    /\ ~should_close
    /\ Apply(msg, ptr)
    /\ UNCHANGED qvars

\* run: `while !self.should_close` is false, run returns Ok(())
LoopExit ==
    /\ AtLoop
    /\ should_close
    /\ run' = "returned_ok"
    /\ UNCHANGED <<screens, focus, config, should_close, border>>
    /\ UNCHANGED <<qvars, hvars>>

(***************************************************************************)
(* The inputs the environment draws.                                       *)
(***************************************************************************)
TypeInputs == {{"Normal"}, {"Dialog"}, {"Dock"}}
DirInputs == {"West", "South"}
RatioInputs == {NoRatio, SomeRatio(30)}
ChangeInputs == {[kind |-> "Add", value |-> 45], [kind |-> "Sub", value |-> 45],
                 [kind |-> "Set", value |-> 0], [kind |-> "Add", value |-> 127],
                 [kind |-> "Sub", value |-> -128], [kind |-> "Set", value |-> -128]}
DesktopInputs == 0..(MaxScreens * MaxDesktops)
GapInputs == {0, 1}
PaddingInputs == {PaddingOf(0, 0, 0, 0), PaddingOf(1, 1, 1, 1)}
ColourInputs == {<<"f", "f">>, <<"f", "f", "f", "f", "f", "f", "f", "f">>, <<"z", "z">>}
WidthInputs == {1, 2}

\* The pointer readings that make a difference: with a focus, focused() does
\* not look at the pointer
PtrInputs == IF focus = NoWindow THEN 0..Len(screens) ELSE {0}

(***************************************************************************)
(* The actions: one per event and per command, as the loop of run          *)
(* dispatches it.                                                          *)
(***************************************************************************)
MapRequest ==
    /\ AtLoop
    /\ \E w \in Windows, t \in TypeInputs, p \in PtrInputs : Dispatch(XMapRequest(w, t), p)
UnmapNotify ==
    /\ AtLoop
    /\ \E w \in Windows : Dispatch(XUnmapNotify(w), 0)
EnterNotify ==
    /\ AtLoop
    /\ \E w \in Windows : Dispatch(XEnterNotify(w), 0)
FocusIn ==
    /\ AtLoop
    /\ \E w \in Windows : Dispatch(XFocusIn(w), 0)
OtherEvent ==
    /\ AtLoop
    /\ Dispatch(XOther, 0)
NodeInsertCmd ==
    /\ AtLoop
    /\ \E d \in DirInputs, r \in RatioInputs, t \in BOOLEAN : Dispatch(CInsert(d, r, t), 0)
NodeMove ==
    /\ AtLoop
    /\ Dispatch(CMove, 0)
NodeState ==
    /\ AtLoop
    /\ \E st \in States, t \in BOOLEAN : Dispatch(CState(st, t), 0)
NodeDesktop ==
    /\ AtLoop
    /\ \E d \in 0..MaxDesktops : Dispatch(CNodeDesktop(d), 0)
NodeRatio ==
    /\ AtLoop
    /\ \E c \in ChangeInputs, checks \in BOOLEAN : Dispatch(CRatio(c, checks), 0)
NodeReverseCmd ==
    /\ AtLoop
    /\ Dispatch(CReverse, 0)
NodeKill ==
    /\ AtLoop
    /\ Dispatch(CKill, 0)
NodeClose ==
    /\ AtLoop
    /\ Dispatch(CClose, 0)
DesktopFocus ==
    /\ AtLoop
    /\ \E d \in DesktopInputs, p \in PtrInputs : Dispatch(CDesktopFocus(d), p)
ConfigDesktops ==
    /\ AtLoop
    /\ \E n \in 0..MaxDesktops, p \in BOOLEAN : Dispatch(CDesktops(n, p), 0)
ConfigWindow ==
    /\ AtLoop
    /\ \E g \in GapInputs : Dispatch(CWindow(g), 0)
ConfigBorder ==
    /\ AtLoop
    /\ \E n \in ColourInputs, f \in ColourInputs, w \in WidthInputs :
         Dispatch(CBorder(n, f, w), 0)
\* Config::Border where a colour either fails to parse or is the default's
ConfigBorderCore ==
    /\ AtLoop
    /\ \E n \in {<<"f", "f">>, <<"z", "z">>},
          f \in {<<"f", "f", "f", "f", "f", "f", "f", "f">>, <<>>} :
           Dispatch(CBorder(n, f, 1), 0)
ConfigPadding ==
    /\ AtLoop
    /\ \E pd \in PaddingInputs : Dispatch(CPadding(pd), 0)
ConfigPointerFollowsFocus ==
    /\ AtLoop
    /\ Dispatch(CPointerFollowsFocus, 0)
ConfigFocusFollowsPointer ==
    /\ AtLoop
    /\ Dispatch(CFocusFollowsPointer, 0)
Exit ==
    /\ AtLoop
    /\ Dispatch(CExit, 0)

\* The manager on its own: every event, and the commands that act on the
\* screens, the focus or the loop
Next ==
    \/ MapRequest
    \/ UnmapNotify
    \/ EnterNotify
    \/ FocusIn
    \/ OtherEvent
    \/ NodeMove
    \/ NodeState
    \/ NodeDesktop
    \/ NodeKill
    \/ NodeClose
    \/ DesktopFocus
    \/ ConfigDesktops
    \/ ConfigBorderCore
    \/ Exit
    \/ LoopExit

Spec == Init /\ [][Next]_vars

\* The manager of one screen under the commands that shape the tree
NextLayout ==
    \/ MapRequest
    \/ UnmapNotify
    \/ FocusIn
    \/ NodeInsertCmd
    \/ NodeRatio
    \/ NodeReverseCmd
    \/ ConfigDesktops

InitLayout == InitThreads /\ InitIdle /\ InitManager(1)

SpecLayout == InitLayout /\ [][NextLayout]_vars

\* The manager of one screen under the commands that set the configuration
NextConfig ==
    \/ ConfigWindow
    \/ ConfigBorder
    \/ ConfigPadding
    \/ ConfigPointerFollowsFocus
    \/ ConfigFocusFollowsPointer
    \/ Exit
    \/ LoopExit

SpecConfig == InitLayout /\ [][NextConfig]_vars

(***************************************************************************)
(* event: Queue.  VecDeque::push_back and VecDeque::pop_front.             *)
(***************************************************************************)
\* VecDeque::push_front, which Queue::push does not call
PushFront(q, value) == <<value>> \o q

PushBack(q, value) == Append(q, value)

\* pop_front of a non-empty deque: the value and what is left
PopFront(q) == [value |-> Head(q), rest |-> Tail(q)]

(***************************************************************************)
(* server: the payload of a connection is a sequence of bytes, which       *)
(* bincode::deserialize reads as an Arguments: the variant index of        *)
(* Command as a little-endian u32 (Node 0, Desktop 1, Config 2, Exit 3),   *)
(* then the variant's fields; a usize is a little-endian u64.  The         *)
(* variants decoded here are those the payload inputs encode.              *)
(***************************************************************************)
RECURSIVE LittleEndian(_)
LittleEndian(bytes) ==
    IF bytes = <<>> THEN 0 ELSE Head(bytes) + 256 * LittleEndian(Tail(bytes))

Malformed == [ok |-> FALSE, args |-> NoMessage]
Decoded(msg) == [ok |-> TRUE, args |-> msg]

\* [ok, value, rest]: a u32 or u64 read off the front of bytes
ReadInt(bytes, width) ==
    IF Len(bytes) < width THEN [ok |-> FALSE, value |-> 0, rest |-> <<>>]
    ELSE [ok |-> TRUE, value |-> LittleEndian(SubSeq(bytes, 1, width)),
          rest |-> SubSeq(bytes, width + 1, Len(bytes))]

DeserializeDesktop(bytes) ==
    LET variant == ReadInt(bytes, 4) IN
    IF ~variant.ok \/ variant.value # 0 THEN Malformed
    ELSE LET desktop == ReadInt(variant.rest, 8)
         IN  IF desktop.ok THEN Decoded(CDesktopFocus(desktop.value)) ELSE Malformed

\* The character of a byte of a String: the hexadecimal digits, "z" for 122,
\* "?" for what a colour never holds
CharOf(byte) ==
    CASE byte \in 48..57 -> HexDigits[byte - 47]
      [] byte \in 97..102 -> HexDigits[byte - 86]
      [] byte = 122 -> "z"
      [] OTHER -> "?"

\* [ok, value, rest]: a String, its length as a u64 and then its bytes
ReadString(bytes) ==
    LET len == ReadInt(bytes, 8) IN
    IF ~len.ok \/ Len(len.rest) < len.value THEN [ok |-> FALSE, value |-> <<>>, rest |-> <<>>]
    ELSE [ok |-> TRUE, value |-> [i \in 1..len.value |-> CharOf(len.rest[i])],
          rest |-> SubSeq(len.rest, len.value + 1, Len(len.rest))]

\* ConfigCommand::Border { normal: String, focused: String, width: u16 }
DeserializeBorder(bytes) ==
    LET normal == ReadString(bytes) IN
    IF ~normal.ok THEN Malformed
    ELSE LET focused == ReadString(normal.rest) IN
         IF ~focused.ok THEN Malformed
         ELSE LET width == ReadInt(focused.rest, 2)
              IN  IF width.ok
                  THEN Decoded(CBorder(normal.value, focused.value, width.value))
                  ELSE Malformed

DeserializeConfig(bytes) ==
    LET variant == ReadInt(bytes, 4) IN
    IF ~variant.ok THEN Malformed
    ELSE CASE variant.value = 2 -> DeserializeBorder(variant.rest)
           [] variant.value = 4 -> Decoded(CPointerFollowsFocus)
           [] variant.value = 5 -> Decoded(CFocusFollowsPointer)
           [] OTHER -> Malformed

Deserialize(bytes) ==
    LET variant == ReadInt(bytes, 4) IN
    IF ~variant.ok THEN Malformed
    ELSE CASE variant.value = 1 -> DeserializeDesktop(variant.rest)
           [] variant.value = 2 -> DeserializeConfig(variant.rest)
           [] variant.value = 3 -> Decoded(CExit)
           [] OTHER -> Malformed

\* What a connection carries: Exit, Desktop::Focus{1}, Config::FocusFollowsPointer,
\* Config::Border{"z", "f", 1}, an unknown variant, a payload cut short, nothing
PayloadInputs ==
    {<<3, 0, 0, 0>>,
     <<1, 0, 0, 0, 0, 0, 0, 0, 1, 0, 0, 0, 0, 0, 0, 0>>,
     <<2, 0, 0, 0, 5, 0, 0, 0>>,
     <<2, 0, 0, 0, 2, 0, 0, 0, 1, 0, 0, 0, 0, 0, 0, 0, 122,
       1, 0, 0, 0, 0, 0, 0, 0, 102, 1, 0>>,
     <<9, 0, 0, 0>>,
     <<1, 0, 0, 0, 0, 0>>,
     <<>>}

\* What the display reports to listen
EventInputs == {XMapRequest(1, {"Normal"}), XFocusIn(1), XOther}

\* The pushes begun so far: the bound on the messages of a run
Begun ==
    Len(pushed) + (IF server.pc \in {"push", "locked"} THEN 1 ELSE 0)
                + (IF xsource.pc \in {"push", "locked"} THEN 1 ELSE 0)

(***************************************************************************)
(* The IPC server thread: server::spawn, Server::new, Server::listen.      *)
(***************************************************************************)
\* Server::new: the socket is bound, or new returns Err, which spawn's
\* `if let Ok(..)` drops, and the thread ends ("unbound")
ServerNew ==
    /\ server.pc = "new"
    /\ \E bound \in BOOLEAN :
         server' = [server EXCEPT !.pc = IF bound THEN "accept" ELSE "unbound"]
    /\ UNCHANGED <<mvars, hvars, queue, mutex, xsource, waiter, got, pushed, delivered>>

\* listen: one connection, read to its end and deserialized; `?` on an Err of
\* deserialize returns from listen, and the thread ends
ServerConnection(payload) ==
    /\ server.pc = "accept"
    /\ Begun < MaxPush
    /\ LET d == Deserialize(payload) IN
       server' = IF d.ok THEN [pc |-> "push", buf |-> d.args]
                 ELSE [pc |-> "dead", buf |-> NoMessage]
    /\ UNCHANGED <<mvars, hvars, queue, mutex, xsource, waiter, got, pushed, delivered>>

ServerAccept == \E payload \in PayloadInputs : ServerConnection(payload)

\* listen: read_to_end fails on the connection, `?` returns from listen
ServerReadFails ==
    /\ server.pc = "accept"
    /\ server' = [pc |-> "dead", buf |-> NoMessage]
    /\ UNCHANGED <<mvars, hvars, queue, mutex, xsource, waiter, got, pushed, delivered>>

(***************************************************************************)
(* The X event thread: listen in wm/mod.rs.                                *)
(***************************************************************************)
XNextEvent ==
    /\ xsource.pc = "next"
    /\ Begun < MaxPush
    /\ \E event \in EventInputs : xsource' = [pc |-> "push", buf |-> event]
    /\ UNCHANGED <<mvars, hvars, queue, mutex, server, waiter, got, pushed, delivered>>

\* next_event returns Err: `?` returns from listen and expect ends the thread
XNextEventFails ==
    /\ xsource.pc = "next"
    /\ xsource' = [pc |-> "dead", buf |-> NoMessage]
    /\ UNCHANGED <<mvars, hvars, queue, mutex, server, waiter, got, pushed, delivered>>

(***************************************************************************)
(* Queue::push, by either producer thread.                                 *)
(***************************************************************************)
\* lock!(self.queue): the mutex is taken when it is free
ServerPushLock ==
    /\ server.pc = "push"
    /\ mutex = "free"
    /\ mutex' = "server"
    /\ server' = [server EXCEPT !.pc = "locked"]
    /\ UNCHANGED <<mvars, hvars, queue, xsource, waiter, got, pushed, delivered>>

\* push_back(value), and the guard is dropped at the end of the statement
ServerPushBack ==
    /\ server.pc = "locked"
    /\ queue' = PushBack(queue, server.buf)
    /\ pushed' = Append(pushed, server.buf)
    /\ mutex' = "free"
    /\ server' = [pc |-> "notify", buf |-> NoMessage]
    /\ UNCHANGED <<mvars, hvars, xsource, waiter, got, delivered>>

\* cond.notify_all() waking no thread
NotifyNone(w) == w

\* cond.notify_all(): a thread blocked in cond.wait is woken, w being the
\* place of the thread in wait()
NotifyAll(w) == IF w = "sleeping" THEN "notified" ELSE w

\* cond.notify_all(), and listen goes on to the next connection
ServerNotify ==
    /\ server.pc = "notify"
    /\ waiter' = NotifyAll(waiter)
    /\ server' = [server EXCEPT !.pc = "accept"]
    /\ UNCHANGED <<mvars, hvars, queue, mutex, xsource, got, pushed, delivered>>

XPushLock ==
    /\ xsource.pc = "push"
    /\ mutex = "free"
    /\ mutex' = "xsource"
    /\ xsource' = [xsource EXCEPT !.pc = "locked"]
    /\ UNCHANGED <<mvars, hvars, queue, server, waiter, got, pushed, delivered>>

XPushBack ==
    /\ xsource.pc = "locked"
    /\ queue' = PushBack(queue, xsource.buf)
    /\ pushed' = Append(pushed, xsource.buf)
    /\ mutex' = "free"
    /\ xsource' = [pc |-> "notify", buf |-> NoMessage]
    /\ UNCHANGED <<mvars, hvars, server, waiter, got, delivered>>

XNotify ==
    /\ xsource.pc = "notify"
    /\ waiter' = NotifyAll(waiter)
    /\ xsource' = [xsource EXCEPT !.pc = "next"]
    /\ UNCHANGED <<mvars, hvars, queue, mutex, server, got, pushed, delivered>>

(***************************************************************************)
(* Queue::wait, by the manager thread, and the loop of run around it.      *)
(***************************************************************************)
\* run: `while !self.should_close` holds; wait: lock!(self.queue)
WaitLock ==
    /\ run = "loop"
    /\ ~should_close
    /\ waiter = "idle"
    /\ mutex = "free"
    /\ mutex' = "main"
    /\ waiter' = "locked"
    /\ UNCHANGED <<mvars, hvars, queue, server, xsource, got, pushed, delivered>>

\* wait: pop_front is Some(value): return Ok(value), dropping the guard
WaitPop ==
    /\ waiter = "locked"
    /\ queue # <<>>
    /\ got' = PopFront(queue).value
    /\ queue' = PopFront(queue).rest
    /\ delivered' = Append(delivered, PopFront(queue).value)
    /\ mutex' = "free"
    /\ waiter' = "returned"
    /\ UNCHANGED <<mvars, hvars, server, xsource, pushed>>

\* wait: pop_front is None: cond.wait(guard) releases the mutex and blocks
WaitSleep ==
    /\ waiter = "locked"
    /\ queue = <<>>
    /\ mutex' = "free"
    /\ waiter' = "sleeping"
    /\ UNCHANGED <<mvars, hvars, queue, server, xsource, got, pushed, delivered>>

\* cond.wait returns, notified or spuriously, with the mutex taken again
WaitWake ==
    /\ waiter \in {"notified", "sleeping"}
    /\ mutex = "free"
    /\ mutex' = "main"
    /\ waiter' = "locked"
    /\ UNCHANGED <<mvars, hvars, queue, server, xsource, got, pushed, delivered>>

\* run: the match on what wait() returned
DispatchWaited ==
    /\ run = "loop"
    /\ waiter = "returned"
    /\ \E ptr \in PtrInputs : Apply(got, ptr)
    /\ waiter' = "idle"
    /\ got' = NoMessage
    /\ UNCHANGED <<queue, mutex, server, xsource, pushed, delivered>>

\* The manager with its queue and the two producer threads
NextQueue ==
    \/ ServerNew
    \/ ServerAccept
    \/ ServerReadFails
    \/ ServerPushLock
    \/ ServerPushBack
    \/ ServerNotify
    \/ XNextEvent
    \/ XNextEventFails
    \/ XPushLock
    \/ XPushBack
    \/ XNotify
    \/ WaitLock
    \/ WaitPop
    \/ WaitSleep
    \/ WaitWake
    \/ DispatchWaited
    \/ LoopExit

InitQueue == InitThreads /\ InitIdle /\ InitManager(1)

SpecQueue == InitQueue /\ [][NextQueue]_vars

\* The same, the manager thread taking the step from the end of a dispatch
\* to the test of `while !self.should_close`: it is a running thread that
\* nothing blocks there
SpecQueueFair == InitQueue /\ [][NextQueue]_vars /\ WF_vars(LoopExit)

\* ---- The start of run: the IPC server thread and the X event thread are
\* ---- spawned, then startup() runs the autostart script and waits for it,
\* ---- then the loop begins.  run = "startup" while the script runs.

InitStartup ==
    /\ InitThreads
    /\ InitIdle
    /\ screens = <<ScreenNew>>
    /\ focus = NoWindow
    /\ config = ConfigurationNew
    /\ should_close = FALSE
    /\ border = [w \in Windows |-> Unpainted]
    /\ run = "startup"

\* The autostart script sends one command: the client's connect succeeds when
\* the server thread has bound the socket, and the server then reads the
\* command from the connection; before the bind, or after a failed one,
\* there is no listener and the connect is refused
AutostartSend ==
    /\ run = "startup"
    /\ call = NoCall
    /\ IF server.pc = "accept"
       THEN /\ server' = [pc |-> "push", buf |-> CDesktops(1, FALSE)]
            /\ call' = [op |-> "autostart", accepted |-> TRUE]
       ELSE /\ server' = server
            /\ call' = [op |-> "autostart", accepted |-> FALSE]
    /\ UNCHANGED <<mvars, queue, mutex, xsource, waiter, got, pushed, delivered,
                   tree, mapped>>

\* child.wait() returns: startup() returns Ok and the loop begins
AutostartDone ==
    /\ run = "startup"
    /\ run' = "loop"
    /\ UNCHANGED <<screens, focus, config, should_close, border, qvars, hvars>>

\* startup() returns Err (HOME unset, sh not spawned): `?` ends run
AutostartFails ==
    /\ run = "startup"
    /\ run' = "returned_err"
    /\ UNCHANGED <<screens, focus, config, should_close, border, qvars, hvars>>

NextStartup ==
    \/ ServerNew
    \/ AutostartSend
    \/ AutostartDone
    \/ AutostartFails
    \/ ServerPushLock
    \/ ServerPushBack
    \/ ServerNotify
    \/ XNextEvent
    \/ XNextEventFails
    \/ XPushLock
    \/ XPushBack
    \/ XNotify
    \/ WaitLock
    \/ WaitPop
    \/ WaitSleep
    \/ WaitWake
    \/ DispatchWaited

SpecStartup == InitStartup /\ [][NextStartup]_vars

\* cond.wait returning because the thread was notified
WaitWakeNotified == waiter = "notified" /\ WaitWake

\* The same under fair scheduling of the threads: a thread that holds the
\* mutex or has released it goes on (push_back, notify_all, pop_front,
\* cond.wait), and a thread that asks for the mutex, in lock() or on its way
\* out of cond.wait after a notification, obtains it when it is free again
\* and again
SpecQueueLive ==
    /\ InitQueue
    /\ [][NextQueue]_vars
    /\ WF_vars(ServerPushBack) /\ WF_vars(ServerNotify)
    /\ WF_vars(XPushBack) /\ WF_vars(XNotify)
    /\ WF_vars(WaitPop) /\ WF_vars(WaitSleep)
    /\ SF_vars(WaitLock) /\ SF_vars(WaitWakeNotified)

(***************************************************************************)
(* Screen on its own: screens[1] is built by Screen::insert and by the     *)
(* assignment of current, and Screen::resize is applied to it.             *)
(***************************************************************************)
MaxResize == 3
MaxPlaced == 3

\* Screen::insert(window, Insert::default(), Point::Any, state)
InsertScreen ==
    /\ run = "loop"
    /\ \E w \in Windows, state \in {"Tiled", "Float"} :
         LET after == ScreenInsert(screens[1], w, InsertDefault, PointAny, state)
         IN  /\ Placements(<<after>>) <= MaxPlaced
             /\ screens' = [screens EXCEPT ![1] = after]
             /\ call' = [op |-> "Screen::insert"]
    /\ UNCHANGED <<focus, config, should_close, border, run, qvars, tree, mapped>>

\* screen.current = desktop.min(screen.desktops.len())
SelectScreen ==
    /\ run = "loop"
    /\ \E desktop \in 0..MaxResize :
         /\ screens' = [screens EXCEPT ![1].current = PinnedCurrent(screens[1], desktop)]
         /\ call' = [op |-> "current"]
    /\ UNCHANGED <<focus, config, should_close, border, run, qvars, tree, mapped>>

\* Screen::resize(size); the index out of bounds at desktops[size - 1] ends
\* the process
ResizeScreen ==
    /\ run = "loop"
    /\ \E size \in 0..MaxResize :
         LET r == ScreenResize(screens[1], size)
         IN  /\ screens' = [screens EXCEPT ![1] = r.screen]
             /\ run' = IF r.panic THEN "panicked" ELSE "loop"
             /\ call' = [op |-> "Screen::resize", size |-> size, before |-> screens[1],
                         panic |-> r.panic]
    /\ UNCHANGED <<focus, config, should_close, border, qvars, tree, mapped>>

NextScreen ==
    \/ InsertScreen
    \/ SelectScreen
    \/ ResizeScreen

SpecScreen == InitLayout /\ [][NextScreen]_vars

(***************************************************************************)
(* The tree on its own: a Node grown from a leaf by insert, and remove,    *)
(* reverse and partition applied to it.                                    *)
(***************************************************************************)
MaxLeaves == 3

InsertInputs == {InsertDefault, InsertNew("North", 29), InsertNew("West", 0),
                 InsertNew("South", 100)}
PointInputs == {PointAny} \cup {PointWindow(w) : w \in Windows}
AreaInputs == {AreaNew(0, 0, 40, 100), AreaNew(65500, 65520, 35, 15)}
TreeGapInputs == {0, 2, 10}

InitTree ==
    /\ InitThreads
    /\ InitManager(1)
    /\ tree \in {NodeRoot(w) : w \in Windows}
    /\ call = NoCall
    /\ mapped = {}

TreeInsert ==
    /\ Len(NodeCollect(tree)) < MaxLeaves
    /\ \E w \in Windows, insert \in InsertInputs, point \in PointInputs :
         /\ tree' = NodeInsert(tree, w, insert, point)
         /\ call' = [op |-> "insert", window |-> w, insert |-> insert, point |-> point,
                     before |-> tree]
    /\ UNCHANGED <<mvars, qvars, mapped>>

TreeRemove ==
    /\ \E needle \in Windows :
         /\ tree' = NodeRemove(tree, needle).node
         /\ call' = [op |-> "remove", needle |-> needle, before |-> tree,
                     ret |-> NodeRemove(tree, needle).ret]
    /\ UNCHANGED <<mvars, qvars, mapped>>

TreeReverse ==
    /\ tree' = NodeReverse(tree)
    /\ call' = [op |-> "reverse", before |-> tree]
    /\ UNCHANGED <<mvars, qvars, mapped>>

TreePartition ==
    /\ \E area \in AreaInputs, gaps \in TreeGapInputs, checks \in BOOLEAN :
         call' = [op |-> "partition", area |-> area, gaps |-> gaps,
                  placed |-> Partitioned(tree, area, gaps, checks).placed,
                  panic |-> Partitioned(tree, area, gaps, checks).panic]
    /\ UNCHANGED <<mvars, qvars, tree, mapped>>

\* map_internal with the closure of Node::Reverse
TreeMapReverse ==
    /\ \E needle \in Windows :
         /\ tree' = NodeMapInternal(tree, needle, [kind |-> "Reverse"]).node
         /\ call' = [op |-> "map_reverse", needle |-> needle, before |-> tree]
    /\ UNCHANGED <<mvars, qvars, mapped>>

NextTree ==
    \/ TreeInsert
    \/ TreeRemove
    \/ TreeReverse
    \/ TreeMapReverse
    \/ TreePartition

SpecTree == InitTree /\ [][NextTree]_vars

\* ---- map_internal on its own: the tree is drawn at the start, one call
\* ---- of map_internal with the closure of Node::Ratio or of Node::Reverse
\* ---- is applied to it

\* Changes of Node::Ratio drawn here; Add 100 overflows the ratio's type on
\* the larger ratios
TreeRatioInputs == {[kind |-> "Set", value |-> 70], [kind |-> "Add", value |-> 100]}

\* Trees of up to three leaves, a window possibly in two leaves
TreeLeaves == {Leaf(w) : w \in Windows}

TreePairs == {Internal(a, b, i) : a \in TreeLeaves, b \in TreeLeaves, i \in InsertInputs}

TreeInputs ==
    TreeLeaves \cup TreePairs
    \cup {Internal(a, b, i) : a \in TreePairs, b \in TreeLeaves, i \in InsertInputs}
    \cup {Internal(a, b, i) : a \in TreeLeaves, b \in TreePairs, i \in InsertInputs}

InitMap ==
    /\ InitThreads
    /\ InitManager(1)
    /\ tree \in TreeInputs
    /\ call = NoCall
    /\ mapped = {}

\* map_internal with the closure of Node::Ratio
MapRatio ==
    /\ call = NoCall
    /\ \E needle \in Windows, change \in TreeRatioInputs, checks \in BOOLEAN :
         IF checks /\ ClosureOverflows(tree, needle, change)
         THEN /\ tree' = tree
              /\ call' = [op |-> "map_ratio", needle |-> needle, change |-> change,
                          before |-> tree, panic |-> TRUE]
         ELSE /\ tree' = NodeMapInternal(tree, needle,
                                         [kind |-> "Ratio", change |-> change]).node
              /\ call' = [op |-> "map_ratio", needle |-> needle, change |-> change,
                          before |-> tree, panic |-> FALSE]
    /\ UNCHANGED <<mvars, qvars, mapped>>

\* map_internal with the closure of Node::Reverse
MapReverse ==
    /\ call = NoCall
    /\ TreeMapReverse

NextMap == MapRatio \/ MapReverse

SpecMap == InitMap /\ [][NextMap]_vars

(***************************************************************************)
(* The closure of Node::Ratio on its own: applied once, through            *)
(* map_internal, to the Internal above two leaves, for every ratio in      *)
(* 10..90, every Change and every i8 value.                                *)
(***************************************************************************)
Changes == {[kind |-> k, value |-> v] : k \in {"Add", "Sub", "Set"}, v \in I8}

InitRatio ==
    /\ InitThreads
    /\ InitManager(1)
    /\ tree \in {Internal(Leaf(1), Leaf(2), InsertNew("East", old)) : old \in 10..90}
    /\ call = NoCall
    /\ mapped = {}

ApplyRatio ==
    /\ call = NoCall
    /\ \E change \in Changes, checks \in BOOLEAN :
         IF checks /\ ClosureOverflows(tree, 1, change)
         THEN /\ call' = [op |-> "ratio", change |-> change, old |-> tree.insert.ratio,
                          panic |-> TRUE]
              /\ tree' = tree
         ELSE /\ call' = [op |-> "ratio", change |-> change, old |-> tree.insert.ratio,
                          panic |-> FALSE]
              /\ tree' = NodeMapInternal(tree, 1, [kind |-> "Ratio", change |-> change]).node
    /\ UNCHANGED <<mvars, qvars, mapped>>

SpecRatio == InitRatio /\ [][ApplyRatio]_vars

(***************************************************************************)
(* The manager of one screen with the display: every dispatch is followed  *)
(* through its calls of Screen::tile.                                      *)
(***************************************************************************)
MaxShown == 2

ShownInputs == 1..MaxShown
FailInputs == {NoWindow} \cup ShownInputs

\* One iteration of the loop of run on msg, the display holding D when the
\* handler starts
Tiling(msg, ptr, D, fails) ==
    /\ ~should_close
    /\ \E r \in {HandleTiling(Manager, D, msg, ptr, fails)} :
         /\ Settle(r)
         /\ mapped' = r.mapped
         /\ call' = [op |-> "dispatch", kind |-> msg.kind, res |-> r.res,
                     tiled |-> r.tiled, failed |-> r.failed]
    /\ UNCHANGED <<qvars, tree>>

MapRequestTiling ==
    /\ AtLoop
    /\ \E w \in ShownInputs, t \in {{"Normal"}, {"Dialog"}}, fails \in FailInputs :
         Tiling(XMapRequest(w, t), 1, mapped, fails)
\* UnmapNotify reports a window the display has unmapped
UnmapNotifyTiling ==
    /\ AtLoop
    /\ \E w \in ShownInputs, fails \in FailInputs :
         Tiling(XUnmapNotify(w), 0, mapped \ {w}, fails)
FocusInTiling ==
    /\ AtLoop
    /\ \E w \in ShownInputs : Tiling(XFocusIn(w), 0, mapped, NoWindow)
NodeStateTiling ==
    /\ AtLoop
    /\ \E st \in {"Tiled", "Float"}, fails \in FailInputs :
         Tiling(CState(st, TRUE), 0, mapped, fails)
NodeDesktopTiling ==
    /\ AtLoop
    /\ \E d \in 0..MaxDesktops, fails \in FailInputs :
         Tiling(CNodeDesktop(d), 0, mapped, fails)
DesktopFocusTiling ==
    /\ AtLoop
    /\ \E d \in 0..MaxDesktops, fails \in FailInputs :
         Tiling(CDesktopFocus(d), 1, mapped, fails)
ConfigDesktopsTiling ==
    /\ AtLoop
    /\ \E n \in 0..MaxDesktops :
         Tiling(CDesktops(n, FALSE), 0, mapped, NoWindow)

NextDisplay ==
    \/ MapRequestTiling
    \/ UnmapNotifyTiling
    \/ FocusInTiling
    \/ NodeStateTiling
    \/ NodeDesktopTiling
    \/ DesktopFocusTiling
    \/ ConfigDesktopsTiling

SpecDisplay == InitLayout /\ [][NextDisplay]_vars

\* ---- The display's answer to the manager's own unmap calls: a window that
\* ---- was mapped when hide() unmapped it is reported by an UnmapNotify on
\* ---- the root window (SubstructureNotify is selected on it), which listen
\* ---- pushes behind the messages the queue holds by then

\* unmap() on each window: the windows the display reports, those that were
\* mapped, in the order of the calls
RECURSIVE UnmapEvents(_, _)
UnmapEvents(windows, D) ==
    IF windows = <<>> THEN <<>>
    ELSE (IF Head(windows) \in D THEN <<Head(windows)>> ELSE <<>>)
         \o UnmapEvents(Tail(windows), D \ {Head(windows)})

\* The loop of Screen::tile from the desktop at 1-based position index on:
\* the windows reported
RECURSIVE HideEvents(_, _, _)
HideEvents(screen, index, D) ==
    IF index > Len(screen.desktops) THEN <<>>
    ELSE IF index = screen.current + 1 THEN HideEvents(screen, index + 1, D)
    ELSE UnmapEvents(Clients(screen.desktops[index]) \o screen.desktops[index].floating, D)
         \o HideEvents(screen, index + 1,
                       DesktopHide(screen.desktops[index], D, NoWindow).mapped)

\* Screen::tile on the screens of which from position index on: the windows
\* reported
RECURSIVE TileEvents(_, _, _, _)
TileEvents(scrs, which, index, D) ==
    IF index > Len(scrs) THEN <<>>
    ELSE IF index \notin which THEN TileEvents(scrs, which, index + 1, D)
    ELSE HideEvents(scrs[index], 1, ScreenTileCurrent(scrs[index], D, NoWindow).mapped)
         \o TileEvents(scrs, which, index + 1, ScreenTile(scrs[index], D, NoWindow).mapped)

\* The UnmapNotify events a handler with result r brings about
EventsOf(r, which, D) ==
    IF r.res # "Ok" THEN <<>>
    ELSE [k \in 1..Len(TileEvents(r.m.screens, which, 1, D)) |->
            XUnmapNotify(TileEvents(r.m.screens, which, 1, D)[k])]

MaxQueued == 2

\* The messages sent to the manager here
QueuedInputs ==
    {XMapRequest(w, {"Normal"}) : w \in ShownInputs}
    \cup {XFocusIn(w) : w \in ShownInputs}
    \cup {CDesktopFocus(d) : d \in 0..(MaxDesktops - 1)}
    \cup {CNodeDesktop(d) : d \in 0..(MaxDesktops - 1)}
    \cup {CDesktops(MaxDesktops, pinned) : pinned \in BOOLEAN}

\* Queue::push by the IPC server or by listen
Send ==
    /\ Len(queue) < MaxQueued
    /\ \E msg \in QueuedInputs : queue' = PushBack(queue, msg)
    /\ UNCHANGED <<mvars, mutex, server, xsource, waiter, got, pushed, delivered, hvars>>

\* The loop of run takes the message at the front and dispatches it; the
\* display reports the windows the handler unmapped, and listen pushes the
\* reports
Take ==
    /\ AtLoop
    /\ ~should_close
    /\ queue # <<>>
    /\ \E r \in {HandleTiling(Manager, mapped, Head(queue), 1, NoWindow)} :
         /\ Settle(r)
         /\ mapped' = r.mapped
         /\ call' = [op |-> "dispatch", kind |-> Head(queue).kind, res |-> r.res,
                     tiled |-> r.tiled, failed |-> r.failed]
         /\ queue' = PopFront(queue).rest
                        \o EventsOf(r, TiledBy(Manager, Head(queue), 1), mapped)
    /\ UNCHANGED <<mutex, server, xsource, waiter, got, pushed, delivered, tree>>

NextUnmap == Send \/ Take

SpecUnmap == InitLayout /\ [][NextUnmap]_vars

(***************************************************************************)
(* Properties.                                                             *)
(***************************************************************************)
\* Whether a message is an X event (the others are commands)
IsXEvent(msg) == msg.kind \in {"MapRequest", "UnmapNotify", "EnterNotify", "FocusIn", "Other"}

\* The desktop Screen::insert and Screen::remove act on
CurrentDesktop(screen) == screen.desktops[screen.current + 1]

\* The number of leaves of a desktop's tree that hold window
LeavesOf(desktop, window) ==
    IF desktop.clients = NoNode THEN 0
    ELSE LET leaves == NodeCollect(desktop.clients)
         IN  Cardinality({n \in 1..Len(leaves) : leaves[n] = window})

\* The number of places (leaves and floating entries, over all desktops of all
\* screens) that hold window
PlacesOf(M, window) ==
    LET OfDesktop(d) ==
            LeavesOf(d, window)
            + Cardinality({n \in 1..Len(d.floating) : d.floating[n] = window})
        RECURSIVE SumD(_)
        SumD(ds) == IF ds = <<>> THEN 0 ELSE OfDesktop(Head(ds)) + SumD(Tail(ds))
        RECURSIVE SumS(_)
        SumS(ss) == IF ss = <<>> THEN 0 ELSE SumD(Head(ss).desktops) + SumS(Tail(ss))
    IN  SumS(M.screens)

\* No window is held in two places
SinglyPlaced(M) == \A w \in Windows : PlacesOf(M, w) <= 1

\* C1: the messages wait() has returned, followed by those still in the
\* queue, are exactly the messages push() appended, in the order it appended
\* them: wait() returns messages in push order, none lost, none duplicated,
\* X events and commands alike.
C1_Fifo == delivered \o queue = pushed

\* C1, its case: both producers have pushed, wait() has returned a command
\* and an X event, and a further message is still queued.
C1_FifoWitness ==
    /\ Len(delivered) >= 2
    /\ \E m \in 1..Len(delivered) : IsXEvent(delivered[m])
    /\ \E m \in 1..Len(delivered) : ~IsXEvent(delivered[m])
    /\ queue # <<>>

\* C2: when the handler of the message wait() returned yields an error, the
\* loop of run is still running after the dispatch (and so goes on to the
\* messages queued behind it).
C2_ErrorKeepsLoopRunning ==
    [][\A ptr \in PtrInputs :
         (/\ run = "loop"
          /\ waiter = "returned"
          /\ Handle(Manager, got, ptr).res = "Err"
          /\ DispatchWaited)
         => run' = "loop"]_vars

\* C3: a connection whose payload does not deserialize leaves the server
\* accepting connections.
C3_MalformedKeepsAccepting ==
    [][\A payload \in PayloadInputs :
         (ServerConnection(payload) /\ ~Deserialize(payload).ok)
         => server'.pc = "accept"]_vars

\* C4: in every state where run is about to dispatch, for every window w
\* the manager does not hold yet, of state Tiled or Float, with a focused
\* screen whose current desktop exists: the manager that handling
\* MapRequest(w) yields contains w in that screen's current desktop,
\* whatever the focus is.
C4_MapRequestInserts ==
    \A w \in Windows, t \in {{"Normal"}, {"Dialog"}}, p \in PtrInputs :
        LET i == FocusedIndex(Manager, p)
            r == Handle(Manager, XMapRequest(w, t), p)
        IN  (/\ AtLoop
             /\ ~should_close
             /\ i # 0
             /\ HasCurrent(screens[i])
             /\ ~IsManaged(Manager, w)
             /\ SinglyPlaced(Manager))
            => /\ r.res = "Ok"
               /\ DesktopContains(CurrentDesktop(r.m.screens[i]), w)

\* C5: after UnmapNotify(w), dispatched without a panic from a state where
\* no window is held twice, no desktop of any screen contains w, and a focus
\* that was w is None.
C5_UnmapRemoves ==
    [][\A w \in Windows :
         (/\ SinglyPlaced(Manager)
          /\ AtLoop
          /\ Dispatch(XUnmapNotify(w), 0)
          /\ run' = "loop")
         => /\ ~IsManaged(Manager', w)
            /\ focus = w => focus' = NoWindow]_vars

\* C6: in every reachable state no desktop's tree has two leaves with the
\* same window.
C6_LeafUnique ==
    \A i \in 1..Len(screens) : \A d \in 1..Len(screens[i].desktops) : \A w \in Windows :
        LeavesOf(screens[i].desktops[d], w) <= 1

\* C7: in every reachable state in which run is in its loop, the focus is
\* None or a window some desktop of some screen contains.
C7_FocusManaged == run = "loop" => (focus = NoWindow \/ IsManaged(Manager, focus))

\* C8: in every reachable state in which run is in its loop, at most one
\* managed window carries the focused border colour, and every managed
\* window other than the focus carries the normal border colour.
C8_SingleFocusedBorder ==
    run = "loop" =>
        /\ Cardinality({w \in Windows :
                          IsManaged(Manager, w) /\ border[w] = config.border.focused}) <= 1
        /\ \A w \in Windows :
             (IsManaged(Manager, w) /\ w # focus) => border[w] = config.border.normal

\* C9: desktops not pinned, every screen holding k desktops and n below
\* screens * k: after Desktop::Focus{n} the screen at 0-based position i with
\* i * k <= n < (i + 1) * k has current = n - i * k, and every other screen
\* keeps its current.
C9_UnpinnedFocusSelects ==
    [][\A n \in DesktopInputs :
         LET k == IF screens = <<>> THEN 0 ELSE Len(screens[1].desktops) IN
         (/\ ~config.desktops.pinned
          /\ k >= 1
          /\ \A j \in 1..Len(screens) : Len(screens[j].desktops) = k
          /\ n < Len(screens) * k
          /\ AtLoop
          /\ Dispatch(CDesktopFocus(n), 0))
         => \A j \in 1..Len(screens) :
              screens'[j].current =
                  IF (j - 1) * k <= n /\ n < j * k THEN n - (j - 1) * k
                  ELSE screens[j].current]_vars

\* C10: a Desktop::Focus{n} whose n names no desktop (pinned: n is not below
\* the number of desktops of the focused screen; not pinned: n is not below
\* the number of desktops of all screens) leaves the current of every screen
\* as it was.
C10_OutOfRangeFocusDropped ==
    [][\A n \in DesktopInputs, p \in PtrInputs :
         LET i == FocusedIndex(Manager, p)
             RECURSIVE Total(_)
             Total(ss) == IF ss = <<>> THEN 0 ELSE Len(Head(ss).desktops) + Total(Tail(ss))
         IN  (/\ IF config.desktops.pinned
                 THEN i # 0 /\ n >= Len(screens[i].desktops)
                 ELSE n >= Total(screens)
              /\ AtLoop
              /\ Dispatch(CDesktopFocus(n), p))
             => \A j \in 1..Len(screens) : screens'[j].current = screens[j].current]_vars


\* The tiled windows of a desktop, left to right, and how many leaves of a
\* screen hold window w
TiledOf(desktop) == IF desktop.clients = NoNode THEN <<>> ELSE NodeCollect(desktop.clients)

TiledCount(screen, w) ==
    Cardinality(UNION {{<<d, i>> : i \in {j \in 1..Len(TiledOf(screen.desktops[d])) :
                                            TiledOf(screen.desktops[d])[j] = w}} :
                       d \in 1..Len(screen.desktops)})

\* C11: Screen::resize(n) with n >= 1 does not panic and keeps, for every
\* window, the number of leaves holding it over the screen's desktops; when
\* n is below the number of desktops, every tiled window of a dropped desktop
\* is a leaf of desktops[n - 1] afterwards and the trees of desktops 0..n-2
\* are what they were.
C11_ResizeConservesTiled ==
    (call.op = "Screen::resize" /\ call.size >= 1) =>
        LET before == call.before
            after == screens[1]
            len == Len(call.before.desktops)
        IN  /\ ~call.panic
            /\ \A w \in Windows : TiledCount(after, w) = TiledCount(before, w)
            /\ call.size >= len => Len(after.desktops) = call.size
            /\ call.size < len =>
                 /\ Len(after.desktops) = call.size
                 /\ \A d \in (call.size + 1)..len :
                      \A i \in 1..Len(TiledOf(before.desktops[d])) :
                         SeqContains(TiledOf(after.desktops[call.size]),
                                     TiledOf(before.desktops[d])[i])
                 /\ \A d \in 1..(call.size - 1) :
                      after.desktops[d].clients = before.desktops[d].clients

\* C11, its case: resize(2) has dropped the third desktop, which held two
\* tiled windows, the first desktop holding a tiled window as well
C11_ResizeWitness ==
    /\ call.op = "Screen::resize"
    /\ call.size = 2
    /\ Len(call.before.desktops) = 3
    /\ Len(TiledOf(call.before.desktops[3])) = 2
    /\ call.before.desktops[1].clients # NoNode
    /\ Len(TiledOf(screens[1].desktops[2])) = 2

\* C12: in every state where run is about to dispatch, for every n >= 1
\* below the number of desktops of a screen, Config::Desktops with n names
\* returns Ok and every window the screen contained, tiled or floating, is
\* contained in it afterwards.
C12_DesktopsKeepsClients ==
    (AtLoop /\ ~should_close) =>
        \A n \in 1..MaxDesktops, pinned \in BOOLEAN, i \in 1..Len(screens) :
            n < Len(screens[i].desktops) =>
                /\ Handle(Manager, CDesktops(n, pinned), 0).res = "Ok"
                /\ \A w \in Windows :
                     ScreenContains(screens[i], w) =>
                         ScreenContains(Handle(Manager, CDesktops(n, pinned), 0).m.screens[i], w)

\* C13: after Node::insert(w, insert, point), for any tree, any window w, any
\* Insert and any point, Point::Any or Point::Window(p) for any p, the tree
\* contains w.
C13_InsertContains ==
    call.op = "insert" => NodeContains(tree, call.window)

\* C14: when insert(w, insert, point) has been applied to a tree T that did
\* not contain w, with a point find() resolves in T, a remove(w) applied next
\* returns false and leaves a tree equal to T, Insert values included.
C14_InsertThenRemove ==
    [][(/\ call.op = "insert"
        /\ ~NodeContains(call.before, call.window)
        /\ NodeFinds(call.before, call.point)
        /\ call'.op = "remove"
        /\ call'.needle = call.window)
       => (tree' = call.before /\ ~call'.ret)]_vars

\* C14, its case: w has been inserted next to the right leaf p of a tree of
\* two leaves, at Point::Window(p), with an Insert other than the parent's
C14_InsertWitness ==
    /\ call.op = "insert"
    /\ ~NodeContains(call.before, call.window)
    /\ call.before.kind = "Internal"
    /\ call.point.kind = "Window"
    /\ call.before.right = Leaf(call.point.window)
    /\ call.before.left # call.before.right
    /\ call.insert # call.before.insert
    /\ tree # call.before

\* The number of leaves of node holding window w
Occurrences(node, w) ==
    Cardinality({i \in 1..Len(NodeCollect(node)) : NodeCollect(node)[i] = w})

\* after is before with every Internal that has the leaf w as a child
\* replaced by its other child's subtree, and nothing else changed
RECURSIVE Collapsed(_, _, _)
Collapsed(before, after, w) ==
    IF before.kind = "Leaf" THEN after = before
    ELSE IF before.left = Leaf(w) THEN after = before.right
    ELSE IF before.right = Leaf(w) THEN after = before.left
    ELSE /\ after.kind = "Internal"
         /\ after.insert = before.insert
         /\ Collapsed(before.left, after.left, w)
         /\ Collapsed(before.right, after.right, w)

RECURSIVE Mirrored(_, _)
Mirrored(a, b) ==
    IF a.kind = "Leaf" THEN b = a
    ELSE /\ b.kind = "Internal"
         /\ b.insert = a.insert
         /\ Mirrored(a.left, b.right)
         /\ Mirrored(a.right, b.left)

\* C16: after reverse() the tree is the one before with the children of
\* every Internal exchanged and every Insert kept, and a second reverse()
\* gives back the tree before the first.
C16_ReverseInvolution ==
    call.op = "reverse" =>
        /\ Mirrored(call.before, tree)
        /\ NodeReverse(tree) = call.before

\* C16, its case: reverse() has been applied to a tree of three distinct
\* leaves whose two Internals carry different Inserts
C16_ReverseWitness ==
    /\ call.op = "reverse"
    /\ call.before.kind = "Internal"
    /\ call.before.left.kind = "Internal"
    /\ call.before.left.insert # call.before.insert
    /\ Cardinality({NodeCollect(call.before)[i] : i \in 1..3}) = 3
    /\ tree # call.before

\* The ratios of the Internals of a tree
RECURSIVE Ratios(_)
Ratios(node) ==
    IF node.kind = "Leaf" THEN {}
    ELSE {node.insert.ratio} \cup Ratios(node.left) \cup Ratios(node.right)

\* Rectangles a and b have no point in common
Disjoint(a, b) ==
    \/ a.width = 0
    \/ a.height = 0
    \/ b.width = 0
    \/ b.height = 0
    \/ a.x + a.width <= b.x
    \/ b.x + b.width <= a.x
    \/ a.y + a.height <= b.y
    \/ b.y + b.height <= a.y

\* Rectangle a lies within rectangle b
Within(a, b) ==
    /\ b.x <= a.x
    /\ a.x + a.width <= b.x + b.width
    /\ b.y <= a.y
    /\ a.y + a.height <= b.y + b.height

RECURSIVE SumOfAreas(_)
SumOfAreas(rects) ==
    IF rects = <<>> THEN 0
    ELSE Head(rects).width * Head(rects).height + SumOfAreas(Tail(rects))

\* The smallest rectangle holding the rectangles of a non-empty sequence
Box(rects) ==
    LET I == 1..Len(rects)
        x0 == CHOOSE v \in {rects[i].x : i \in I} : \A i \in I : v <= rects[i].x
        y0 == CHOOSE v \in {rects[i].y : i \in I} : \A i \in I : v <= rects[i].y
        x1 == CHOOSE v \in {rects[i].x + rects[i].width : i \in I} :
                 \A i \in I : v >= rects[i].x + rects[i].width
        y1 == CHOOSE v \in {rects[i].y + rects[i].height : i \in I} :
                 \A i \in I : v >= rects[i].y + rects[i].height
    IN  [x |-> x0, y |-> y0, width |-> x1 - x0, height |-> y1 - y0]

\* At every Internal of node, whose leaves received rects: the rectangles of
\* the two children add up to the Internal's along the split and equal it
\* across
RECURSIVE SplitsExact(_, _)
SplitsExact(node, rects) ==
    IF node.kind = "Leaf" THEN TRUE
    ELSE LET nl == Len(NodeCollect(node.left))
             l == SubSeq(rects, 1, nl)
             r == SubSeq(rects, nl + 1, Len(rects))
         IN  /\ IF node.insert.dir \in {"North", "South"}
                THEN /\ Box(l).height + Box(r).height = Box(rects).height
                     /\ Box(l).width = Box(rects).width
                     /\ Box(r).width = Box(rects).width
                ELSE /\ Box(l).width + Box(r).width = Box(rects).width
                     /\ Box(l).height = Box(rects).height
                     /\ Box(r).height = Box(rects).height
             /\ SplitsExact(node.left, l)
             /\ SplitsExact(node.right, r)

\* C17: after partition(A, 0) on a tree whose ratios lie in 0..100, every
\* leaf has received one rectangle, the rectangles lie within A, are pairwise
\* disjoint and their areas add up to A's, so that their union is A; and at
\* every Internal the two children's extents add up exactly to the
\* Internal's along its split.
C17_PartitionConserves ==
    (call.op = "partition" /\ call.gaps = 0 /\ Ratios(tree) \subseteq 0..100) =>
        /\ ~call.panic
        /\ Len(call.placed) = Len(NodeCollect(tree))
        /\ \A i \in 1..Len(call.placed) :
             /\ call.placed[i].window = NodeCollect(tree)[i]
             /\ Within(call.placed[i], call.area)
        /\ \A i, j \in 1..Len(call.placed) :
             i < j => Disjoint(call.placed[i], call.placed[j])
        /\ SumOfAreas(call.placed) = call.area.width * call.area.height
        /\ SplitsExact(tree, call.placed)

\* C17, its case: partition(A, 0) of a tree of three leaves split once along
\* each axis, where the first cut is the truncated f64 product at height
\* 100, ratio 29, and every leaf has a rectangle of positive area
C17_PartitionWitness ==
    /\ call.op = "partition"
    /\ call.gaps = 0
    /\ call.area.height = 100
    /\ Len(call.placed) = 3
    /\ call.placed[1].height = 28
    /\ call.placed[3].height = 72
    /\ tree.kind = "Internal"
    /\ tree.insert = InsertNew("North", 29)
    /\ tree.left.kind = "Internal"
    /\ tree.left.insert = InsertDefault
    /\ Len(call.placed) = 3
    /\ \A i \in 1..3 : call.placed[i].width * call.placed[i].height > 0

\* C18: when partition(A, gaps) is called with A wider and higher than
\* 2 * gaps, at no leaf does area.width - gaps * 2 or area.height - gaps * 2
\* go below zero.
C18_NoNegativeDimensions ==
    (/\ call.op = "partition"
     /\ call.area.width > 2 * call.gaps
     /\ call.area.height > 2 * call.gaps) =>
        \A i \in 1..Len(NodePartition(tree, call.area, call.gaps)) :
            /\ NodePartition(tree, call.area, call.gaps)[i].width >= 0
            /\ NodePartition(tree, call.area, call.gaps)[i].height >= 0

\* C19: the trees starting without a ratio outside 10..90 and Insert
\* configuring none, after any sequence of Node::Ratio commands (Add, Sub,
\* Set, values up to the ends of i8) every Internal of every desktop has its
\* ratio in 10..90.
C19_RatioClamped ==
    \A i \in 1..Len(screens) :
        \A d \in 1..Len(screens[i].desktops) :
            screens[i].desktops[d].clients # NoNode =>
                Ratios(screens[i].desktops[d].clients) \subseteq 10..90

\* C19, its case: a Node::Ratio command has left an Internal at a ratio that
\* only the clamp produces
C19_RatioWitness ==
    /\ run = "loop"
    /\ \E i \in 1..Len(screens) :
         \E d \in 1..Len(screens[i].desktops) :
            /\ screens[i].desktops[d].clients # NoNode
            /\ 90 \in Ratios(screens[i].desktops[d].clients)

\* The ratio C20 states for a change applied at ratio old
StatedRatio(change, old) ==
    Min(90, Max(10, CASE change.kind = "Add" -> old + change.value
                      [] change.kind = "Sub" -> old - change.value
                      [] change.kind = "Set" -> change.value))

\* C20: for every old in 10..90 and every i8 value v, the closure of
\* Node::Ratio returns, and the ratio it writes is min(90, max(10, old + v))
\* for Add, min(90, max(10, old - v)) for Sub and min(90, max(10, v)) for
\* Set, + and - being those of the integers.
C20_RatioArithmetic ==
    call.op = "ratio" =>
        /\ ~call.panic
        /\ tree.insert.ratio = StatedRatio(call.change, call.old)

\* C21: in every state where run is about to dispatch the configured
\* Insert, which MapRequest hands to every Internal it creates, has its
\* ratio in 10..90, and so it has after Node::Insert with any direction, any
\* i8 ratio argument and either toggle.
C21_InsertRatioRange ==
    (AtLoop /\ ~should_close) =>
        /\ config.insert.ratio \in 10..90
        /\ \A dir \in Directions, v \in I8, toggle \in BOOLEAN :
             Handle(Manager, CInsert(dir, SomeRatio(v), toggle), 0).m.config.insert.ratio
                 \in 10..90

\* after is before with its leftmost leaf replaced by an Internal that
\* carries insert and holds that leaf and a new leaf for window w, and with
\* nothing else changed
RECURSIVE LeftmostGrafted(_, _, _, _)
LeftmostGrafted(before, after, w, insert) ==
    IF before.kind = "Leaf"
    THEN /\ after.kind = "Internal"
         /\ after.insert = insert
         /\ \/ after.left = before /\ after.right = Leaf(w)
            \/ after.left = Leaf(w) /\ after.right = before
    ELSE /\ after.kind = "Internal"
         /\ after.insert = before.insert
         /\ after.right = before.right
         /\ LeftmostGrafted(before.left, after.left, w, insert)

\* C22: after insert(w, insert, Point::Any) on any tree, the tree is the one
\* before with exactly its leftmost leaf replaced by an Internal holding that
\* leaf and the new leaf w, every other node unchanged.
C22_InsertAnyLeftmost ==
    (call.op = "insert" /\ call.point = PointAny) =>
        LeftmostGrafted(call.before, tree, call.window, call.insert)

\* C22, its case: w has been inserted at Point::Any into a tree of two
\* different leaves, neither of them w, with an Insert other than the root's
C22_InsertAnyWitness ==
    /\ call.op = "insert"
    /\ call.point = PointAny
    /\ call.before.kind = "Internal"
    /\ call.before.left # call.before.right
    /\ ~NodeContains(call.before, call.window)
    /\ call.insert # call.before.insert
    /\ tree.left.kind = "Internal"

\* C23: the dispatch of Exit sets should_close; while should_close holds,
\* Exit is the last message wait() has returned and its dispatch is over, so
\* every message pushed ahead of Exit was returned and dispatched before it
\* and every message pushed behind it is still in the queue; run is in its
\* loop or has returned Ok; and run does return.
C23_ExitEndsLoop ==
    /\ [][(waiter = "returned" /\ got = CExit /\ DispatchWaited) => should_close']_vars
    /\ [](should_close =>
            /\ run \in {"loop", "returned_ok"}
            /\ waiter = "idle"
            /\ got = NoMessage
            /\ delivered # <<>>
            /\ delivered[Len(delivered)] = CExit
            /\ delivered \o queue = pushed)
    /\ [][should_close => (delivered' = delivered /\ screens' = screens /\ focus' = focus)]_vars
    /\ (should_close ~> run = "returned_ok")

\* C23, its case: run has returned after Exit, a message pushed ahead of Exit
\* has been dispatched and one pushed behind it is left in the queue
C23_ExitWitness ==
    /\ should_close
    /\ run = "returned_ok"
    /\ Len(delivered) >= 2
    /\ queue # <<>>

\* Window w is a leaf of some tree of the screen, is in some floating list
\* of the screen
TiledIn(screen, w) ==
    \E d \in 1..Len(screen.desktops) : SeqContains(TiledOf(screen.desktops[d]), w)

FloatingIn(screen, w) ==
    \E d \in 1..Len(screen.desktops) : SeqContains(screen.desktops[d].floating, w)

\* C24: in every state where run is about to dispatch with a focused window
\* w on the focused screen, Node::Desktop{d} with d a desktop index of that
\* screen other than current returns Ok and leaves w in desktops[d], in the
\* tree if it was tiled and in the floating list if it was floating, in no
\* other desktop of the screen, and focus None; with d out of range or equal
\* to current it leaves screens and focus as they are.
C24_NodeDesktopMoves ==
    (AtLoop /\ ~should_close /\ focus # NoWindow /\ FocusedIndex(Manager, 0) # 0) =>
        \A d \in 0..MaxDesktops :
            LET i == FocusedIndex(Manager, 0)
                r == Handle(Manager, CNodeDesktop(d), 0)
            IN  IF d < Len(screens[i].desktops) /\ d # screens[i].current
                THEN /\ r.res = "Ok"
                     /\ r.m.focus = NoWindow
                     /\ DesktopContains(r.m.screens[i].desktops[d + 1], focus)
                     /\ TiledIn(screens[i], focus) =>
                            SeqContains(TiledOf(r.m.screens[i].desktops[d + 1]), focus)
                     /\ FloatingIn(screens[i], focus) =>
                            SeqContains(r.m.screens[i].desktops[d + 1].floating, focus)
                     /\ \A e \in 1..Len(r.m.screens[i].desktops) :
                            e # d + 1 => ~DesktopContains(r.m.screens[i].desktops[e], focus)
                ELSE /\ r.res = "Ok"
                     /\ r.m.screens = screens
                     /\ r.m.focus = focus


\* The windows other than w held by a desktop, tiled or floating
OthersOf(desktop, w) ==
    {v \in 1..MaxWindow :
        v # w /\ (SeqContains(TiledOf(desktop), v) \/ SeqContains(desktop.floating, v))}

\* How often w is a tiled leaf, and how often a floating entry, over a screen
FloatingCount(screen, w) ==
    Cardinality({<<d, k>> \in (1..Len(screen.desktops)) \X (1..MaxWindow + 1) :
                    /\ k <= Len(screen.desktops[d].floating)
                    /\ screen.desktops[d].floating[k] = w})

\* C25: in every state where run is about to dispatch with a focused window
\* w held once by the focused screen, whose current index is in range,
\* Node::State{state, toggle} with state Tiled or
\* Float returns Ok and leaves w in the toggled state when toggle is set and
\* w was in the requested state, in the requested state otherwise: as one
\* tiled leaf and no floating entry for Tiled, as one floating entry and no
\* tiled leaf for Float; the other windows of every desktop are unchanged.
C25_NodeStateSets ==
    (/\ AtLoop /\ ~should_close /\ focus # NoWindow /\ FocusedIndex(Manager, 0) # 0
     /\ HasCurrent(screens[FocusedIndex(Manager, 0)])
     /\ TiledCount(screens[FocusedIndex(Manager, 0)], focus)
          + FloatingCount(screens[FocusedIndex(Manager, 0)], focus) = 1) =>
        \A state \in {"Tiled", "Float"}, toggle \in BOOLEAN :
            LET i == FocusedIndex(Manager, 0)
                r == Handle(Manager, CState(state, toggle), 0)
                old == IF FloatingIn(screens[i], focus) THEN "Float" ELSE "Tiled"
                to == IF toggle /\ old = state THEN StateToggle(state) ELSE state
                after == r.m.screens[i]
            IN  /\ r.res = "Ok"
                /\ Len(after.desktops) = Len(screens[i].desktops)
                /\ to = "Tiled" =>
                       TiledCount(after, focus) = 1 /\ FloatingCount(after, focus) = 0
                /\ to = "Float" =>
                       TiledCount(after, focus) = 0 /\ FloatingCount(after, focus) = 1
                /\ \A d \in 1..Len(screens[i].desktops) :
                       OthersOf(after.desktops[d], focus) = OthersOf(screens[i].desktops[d], focus)


\* after is before with every Internal that has the leaf w as a child
\* replaced by its mirror image, and nothing else changed
RECURSIVE ReversedAtParent(_, _, _)
ReversedAtParent(before, after, w) ==
    IF before.kind = "Leaf" THEN after = before
    ELSE IF Leaf(w) \in {before.left, before.right} THEN Mirrored(before, after)
    ELSE /\ after.kind = "Internal"
         /\ after.insert = before.insert
         /\ ReversedAtParent(before.left, after.left, w)
         /\ ReversedAtParent(before.right, after.right, w)

Held(desktop) == {w \in Windows : DesktopContains(desktop, w)}

\* The windows of the current desktop of a screen, and those of its others
Shown(screen) ==
    IF HasCurrent(screen) THEN Held(screen.desktops[screen.current + 1]) ELSE {}

Hidden(screen) ==
    UNION {Held(screen.desktops[d]) :
             d \in {e \in 1..Len(screen.desktops) : e # screen.current + 1}}

C28_DispatchRetiles ==
    (/\ call.op = "dispatch" /\ call.res = "Ok"
     /\ Shown(screens[1]) \cap Hidden(screens[1]) = {}) =>
        Shown(screens[1]) \subseteq mapped


\* C30: after a dispatch in which a display call on one window returned Err
\* while the screen, whose current desktop holds several windows, was being
\* tiled, the manager is still in its loop, every other window of the
\* current desktop is mapped and every other window held by another desktop
\* only is unmapped.
C30_TileErrorSwallowed ==
    (/\ call.op = "dispatch" /\ call.failed # NoWindow
     /\ Cardinality(Shown(screens[1])) >= 2) =>
        /\ run = "loop"
        /\ (Shown(screens[1]) \ {call.failed}) \subseteq mapped
        /\ ((Hidden(screens[1]) \ Shown(screens[1])) \ {call.failed}) \cap mapped = {}


\* C29: once Server::new has failed to bind the socket, run dispatches no
\* message: the manager does not run without its IPC server.
C29_BindFailureFatal ==
    [][server.pc = "unbound" => ~DispatchWaited]_vars


\* C31: after partition with gaps 0 on a tree of two leaves under an
\* Internal of ratio r in 0..100, the left leaf receives the area's origin
\* with floor(W * r / 100) of the width W for West or East (of the height
\* for North or South) and the right leaf the rest, placed behind it; the
\* other dimension is the area's.
C31_SplitGeometry ==
    (/\ call.op = "partition"
     /\ call.gaps = 0
     /\ ~call.panic
     /\ tree.kind = "Internal"
     /\ tree.left.kind = "Leaf"
     /\ tree.right.kind = "Leaf"
     /\ tree.insert.ratio \in 0..100) =>
        LET a == call.area
            r == tree.insert.ratio
            w == (a.width * r) \div 100
            h == (a.height * r) \div 100
        IN  /\ Len(call.placed) = 2
            /\ IF tree.insert.dir \in {"West", "East"}
               THEN /\ call.placed[1] = [window |-> tree.left.window, x |-> a.x, y |-> a.y,
                                         width |-> w, height |-> a.height]
                    /\ call.placed[2] = [window |-> tree.right.window, x |-> a.x + w,
                                         y |-> a.y, width |-> a.width - w,
                                         height |-> a.height]
               ELSE /\ call.placed[1] = [window |-> tree.left.window, x |-> a.x, y |-> a.y,
                                         width |-> a.width, height |-> h]
                    /\ call.placed[2] = [window |-> tree.right.window, x |-> a.x,
                                         y |-> a.y + h, width |-> a.width,
                                         height |-> a.height - h]


\* The consumer is inside wait()
InWait == waiter \in {"locked", "sleeping", "notified"}

\* C32: under fair scheduling, once a message is in the queue while the
\* consumer is inside wait(), or at the head of its loop about to call it,
\* wait() returns; and wait() returns only with the message that was at the
\* front of a non-empty queue.
C32_QueueLiveness ==
    /\ ((queue # <<>> /\ InWait) ~> waiter = "returned")
    /\ ((queue # <<>> /\ AtLoop /\ ~should_close) ~> waiter = "returned")
    /\ [][(waiter # "returned" /\ waiter' = "returned")
            => (queue # <<>> /\ got' = Head(queue))]_vars

\* C32, its case: a producer has completed push and notify_all while the
\* consumer was blocked in cond.wait
C32_QueueLivenessWitness ==
    /\ waiter = "notified"
    /\ queue # <<>>
    /\ server.pc # "notify"
    /\ xsource.pc # "notify"


\* C33: in every state of the running manager, each screen that has at
\* least one desktop has a current index below the number of its desktops.
C33_CurrentValid ==
    run = "loop" =>
        \A i \in 1..Len(screens) :
            Len(screens[i].desktops) >= 1 => HasCurrent(screens[i])


\* No window is held by two leaves of the tree
UniqueLeaves(node) == \A w \in Windows : Occurrences(node, w) <= 1

\* after is before with the closure of Node::Ratio applied to the Internal
\* that has the leaf of w as a child, and to nothing else
RECURSIVE RatioAtParent(_, _, _, _)
RatioAtParent(before, after, w, change) ==
    IF before.kind = "Leaf" THEN after = before
    ELSE IF Leaf(w) \in {before.left, before.right}
    THEN after = Internal(before.left, before.right,
                          InsertNew(before.insert.dir,
                                    NewRatio(change, before.insert.ratio)))
    ELSE /\ after.kind = "Internal"
         /\ after.insert = before.insert
         /\ RatioAtParent(before.left, after.left, w, change)
         /\ RatioAtParent(before.right, after.right, w, change)

\* C34: on a tree with unique leaves map_internal(id, f) applies f to the
\* Internal that is the direct parent of the leaf of id and leaves every
\* other node as it was, for the closure of Node::Ratio as for the one of
\* Node::Reverse; a tree without that leaf, or a single leaf, is unchanged.
C34_MapInternalFrame ==
    /\ (call.op = "map_ratio" /\ ~call.panic /\ UniqueLeaves(call.before)) =>
           /\ RatioAtParent(call.before, tree, call.needle, call.change)
           /\ (~NodeContains(call.before, call.needle) \/ call.before.kind = "Leaf")
                  => tree = call.before
    /\ (call.op = "map_reverse" /\ UniqueLeaves(call.before)) =>
           /\ ReversedAtParent(call.before, tree, call.needle)
           /\ (~NodeContains(call.before, call.needle) \/ call.before.kind = "Leaf")
                  => tree = call.before

\* C34, its case: the ratio of a nested Internal was changed while the root,
\* with another ratio, and its other child stayed as they were
C34_MapInternalWitness ==
    /\ call.op = "map_ratio"
    /\ ~call.panic
    /\ UniqueLeaves(call.before)
    /\ call.before.kind = "Internal"
    /\ call.before.left.kind = "Internal"
    /\ Leaf(call.needle) \in {call.before.left.left, call.before.left.right}
    /\ tree.kind = "Internal"
    /\ tree.insert = call.before.insert
    /\ tree.right = call.before.right
    /\ tree.left # call.before.left
    /\ tree.insert.ratio # NewRatio(call.change, call.before.insert.ratio)


\* C35: dispatching an UnmapNotify that reports the manager's own unmap of
\* a window (every UnmapNotify of SpecUnmap is one) leaves the window on
\* every desktop that held it.
C35_OwnUnmapKeepsWindow ==
    [][(/\ queue # <<>>
        /\ Head(queue).kind = "UnmapNotify"
        /\ PlacesOf(Manager, Head(queue).window) = 1
        /\ Take
        /\ run' = "loop") =>
         \A i \in 1..Len(screens) : \A d \in 1..Len(screens[i].desktops) :
             DesktopContains(screens[i].desktops[d], Head(queue).window) =>
                 DesktopContains(screens'[i].desktops[d], Head(queue).window)]_vars


\* C36: a command the autostart script sends is accepted by the IPC server,
\* whatever the server thread has done by then.
C36_AutostartAccepted == call.op = "autostart" => call.accepted


\* C37: from a state in which no window is held in two places, Node::State
\* and Node::Desktop lead to a state in which no window is held in two
\* places, wherever the focused window lives.
C37_SinglePlacement ==
    (AtLoop /\ ~should_close /\ SinglyPlaced(Manager)) =>
        /\ \A state \in {"Tiled", "Float"}, toggle \in BOOLEAN :
               SinglyPlaced(Handle(Manager, CState(state, toggle), 0).m)
        /\ \A d \in 0..MaxDesktops :
               SinglyPlaced(Handle(Manager, CNodeDesktop(d), 0).m)


\* C38: in every state of the running manager the handler of UnmapNotify
\* returns without a panic, for every window.
C38_UnmapDispatchable ==
    (AtLoop /\ ~should_close) =>
        \A w \in Windows : Handle(Manager, XUnmapNotify(w), 0).res # "Panic"


\* C39: a MapRequest dispatched while the focused screen has at least one
\* desktop, and whose display calls all succeed, leaves its window mapped,
\* whatever the window's type.
C39_MapRequestMaps ==
    (/\ AtLoop /\ ~should_close
     /\ FocusedIndex(Manager, 1) # 0
     /\ Len(screens[FocusedIndex(Manager, 1)].desktops) >= 1) =>
        \A w \in ShownInputs, types \in TypeInputs :
            HandleTiling(Manager, mapped, XMapRequest(w, types), 1, NoWindow).res = "Ok" =>
                w \in HandleTiling(Manager, mapped, XMapRequest(w, types), 1, NoWindow).mapped


\* C40: a Config::Border one of whose colours does not parse leaves the
\* border's colours and width, the rest of the configuration and the
\* screens as they were and tiles no screen; one whose colours both parse
\* replaces the three fields together and tiles every screen.
C40_BorderAllOrNothing ==
    /\ [][\A n \in ColourInputs, f \in ColourInputs, w \in WidthInputs :
            (AtLoop /\ Dispatch(CBorder(n, f, w), 0)) =>
                IF FromStrRadix16(n).ok /\ FromStrRadix16(f).ok
                THEN /\ config'.border = [normal |-> FromStrRadix16(n).value,
                                          focused |-> FromStrRadix16(f).value,
                                          width |-> w]
                     /\ run' = "loop"
                ELSE /\ config' = config
                     /\ screens' = screens
                     /\ run' = "returned_err"]_vars
    /\ [](\A n \in ColourInputs, f \in ColourInputs, w \in WidthInputs :
            HandleTiling(Manager, mapped, CBorder(n, f, w), 0, NoWindow).tiled =
                IF FromStrRadix16(n).ok /\ FromStrRadix16(f).ok
                THEN 1..Len(screens) ELSE {})

\* C40, its case: a Config::Border replaced the three fields, and a later
\* one with a colour that does not parse ended run and left them
C40_BorderWitness ==
    /\ run = "returned_err"
    /\ config.border = [normal |-> FromStrRadix16(<<"f", "f", "f", "f", "f", "f", "f", "f">>).value,
                        focused |-> FromStrRadix16(<<"f", "f">>).value,
                        width |-> 2]

=============================================================================
